---- MODULE Spec2Model ----
(***************************************************************************)
(* A model of the cathedral music list service (src/src/server.js): the    *)
(* time/date parsers, the piece splitter, classifier and title normalizer, *)
(* the line-driven schedule parser, the merge of parsed documents and the  *)
(* cached snapshot with its refresh and selection queries.                 *)
(*                                                                         *)
(* Text is modelled by TLA+ strings, read character by character with      *)
(* SubSeq.  Module text is ASCII, so three non-ASCII characters of the     *)
(* source are written as ASCII stand-ins that no input uses otherwise:     *)
(*   EMDASH "~" for U+2014, ENDASH "^" for U+2013, RQUOTE "@" for U+2019,  *)
(*   and BACKTICK "#" for U+0060, which a TLA+ string cannot hold.         *)
(* Instants are whole minutes since 1970-01-01T00:00Z; a calendar date is  *)
(* the day number Instant \div 1440.                                       *)
(***************************************************************************)
EXTENDS Integers, Sequences, FiniteSets, TLC

VARIABLES
  site,         \* the links of the music list page, in page order
  mockDate,     \* MOCK_DATE as an instant, null when the variable is unset
  clock,        \* the wall clock, in minutes
  due,          \* the instant the refresh timer fires next, null before start()
  cachedData,   \* the snapshot object of server.js (services, endDate, ...)
  reply,        \* the last response a route sent, null before the first
  ps,           \* the state of one parsePDFBuffer scan
  arg,          \* the input of a pure function under test
  res           \* its results so far

vars == <<site, mockDate, clock, due, cachedData, reply, ps, arg, res>>

\* null where a string is expected
NULL == "<null>"
\* null where a date or a record is expected: a value is << >> or <<v>>
None == << >>
Some(v) == <<v>>
Val(o) == o[1]

\* F applied to v: With(e, LAMBDA x : B) is B with the value of e for x
With(v, F(_)) == F(v)

\* ------------------------------------------------------------------------
\* Characters and strings
\* ------------------------------------------------------------------------

EMDASH == "~"
ENDASH == "^"
RQUOTE == "@"
BACKTICK == "#"

DigitChars == {"0", "1", "2", "3", "4", "5", "6", "7", "8", "9"}
UpperSeq == <<"A", "B", "C", "D", "E", "F", "G", "H", "I", "J", "K", "L", "M",
              "N", "O", "P", "Q", "R", "S", "T", "U", "V", "W", "X", "Y", "Z">>
LowerSeq == <<"a", "b", "c", "d", "e", "f", "g", "h", "i", "j", "k", "l", "m",
              "n", "o", "p", "q", "r", "s", "t", "u", "v", "w", "x", "y", "z">>
UpperChars == {UpperSeq[k] : k \in DOMAIN UpperSeq}
LowerChars == {LowerSeq[k] : k \in DOMAIN LowerSeq}
AlphaChars == UpperChars \cup LowerChars
\* \w of a regular expression
WordChars == AlphaChars \cup DigitChars \cup {"_"}
\* \s of a regular expression (the inputs use the space only)
SpaceChars == {" "}

\* s.charAt(i - 1): the 1-character string at position i, "" outside s
Ch(s, i) == IF i >= 1 /\ i <= Len(s) THEN SubSeq(s, i, i) ELSE ""

\* s.substring(i - 1): the rest of s from position i
From(s, i) == SubSeq(s, i, Len(s))

\* s.substring(0, i): the first i characters
Upto(s, i) == SubSeq(s, 1, i)

LowerOf(c) ==
  IF c \in UpperChars
  THEN LowerSeq[CHOOSE k \in DOMAIN UpperSeq : UpperSeq[k] = c]
  ELSE c

RECURSIVE ToLower(_)
ToLower(s) ==
  IF Len(s) <= 1 THEN LowerOf(s)
  ELSE ToLower(SubSeq(s, 1, Len(s) \div 2)) \o ToLower(SubSeq(s, Len(s) \div 2 + 1, Len(s)))

\* s.startsWith(p) at position i
MatchAt(s, i, p) == i >= 1 /\ i + Len(p) - 1 <= Len(s) /\ SubSeq(s, i, i + Len(p) - 1) = p

\* s.includes(p)
Includes(s, p) == \E i \in 1..(Len(s) + 1) : MatchAt(s, i, p)

\* s.indexOf(p) + 1, or 0
IndexOf(s, p) ==
  IF Includes(s, p) THEN CHOOSE i \in 1..(Len(s) + 1) :
       MatchAt(s, i, p) /\ \A j \in 1..(i - 1) : ~MatchAt(s, j, p)
  ELSE 0

\* every character of s[i..j] is in class
AllIn(s, i, j, class) == \A k \in i..j : Ch(s, k) \in class

\* number of characters of class at the front of s from position i
Run(s, i, class) ==
  IF Ch(s, i) \notin class THEN 0
  ELSE (CHOOSE k \in (i + 1)..(Len(s) + 1) :
          Ch(s, k) \notin class /\ \A j \in i..(k - 1) : Ch(s, j) \in class) - i

\* s.trim()
TrimStart(s) == From(s, 1 + Run(s, 1, SpaceChars))
TrimEnd(s) ==
  Upto(s, CHOOSE k \in 0..Len(s) :
            /\ k > 0 => Ch(s, k) \notin SpaceChars
            /\ \A j \in (k + 1)..Len(s) : Ch(s, j) \in SpaceChars)
Trim(s) == TrimEnd(TrimStart(s))

\* \b of a regular expression between positions i - 1 and i
WordBoundary(s, i) == (Ch(s, i - 1) \in WordChars) # (Ch(s, i) \in WordChars)

DigitVal(c) == CHOOSE n \in 0..9 : SubSeq("0123456789", n + 1, n + 1) = c
DigitChar(n) == SubSeq("0123456789", n + 1, n + 1)

\* parseInt(s) of a string of decimal digits
RECURSIVE ParseInt(_)
ParseInt(s) ==
  IF Len(s) = 1 THEN DigitVal(s)
  ELSE 10 * ParseInt(Upto(s, Len(s) - 1)) + DigitVal(Ch(s, Len(s)))

\* n.toString() of a natural number
RECURSIVE NumToString(_)
NumToString(n) == IF n < 10 THEN DigitChar(n) ELSE NumToString(n \div 10) \o DigitChar(n % 10)

\* s.padStart(2, '0')
PadStart2(s) == IF Len(s) < 2 THEN "0" \o s ELSE s

\* text.replace(expression, replacement).  At(s, i) is << >> when the
\* expression does not match at position i, and <<j, r>> when it matches
\* s[i..j-1] and r replaces the match.  An edit is <<i, j, r>>.
Edits(s, At(_, _)) ==
  {<<i>> \o At(s, i) : i \in {p \in 1..Len(s) : At(s, p) # << >>}}

\* an expression with the g flag: every match is replaced, each search
\* starting where the last match ended
RECURSIVE ApplyEdits(_, _, _)
ApplyEdits(s, i, edits) ==
  With({e \in edits : e[1] >= i}, LAMBDA later :
     IF later = {} THEN From(s, i)
     ELSE With(CHOOSE e \in later : \A o \in later : e[1] <= o[1], LAMBDA e :
             SubSeq(s, i, e[1] - 1) \o e[3] \o ApplyEdits(s, e[2], edits)))

ReplaceAll(s, At(_, _)) == ApplyEdits(s, 1, Edits(s, At))

\* an expression without the g flag: the first match is replaced
ReplaceFirst(s, At(_, _)) ==
  With(Edits(s, At), LAMBDA edits :
     IF edits = {} THEN s
     ELSE With(CHOOSE e \in edits : \A o \in edits : e[1] <= o[1], LAMBDA e :
             Upto(s, e[1] - 1) \o e[3] \o From(s, e[2])))

\* ------------------------------------------------------------------------
\* parseTime
\* ------------------------------------------------------------------------

\* /(\d{1,2})[:.]?(\d{0,2})\s*(am|pm)/ and /(\d{1,2})[:.]?(\d{2})/ tried at
\* position i with n1 digits, sep separators and n2 digits; suffix says
\* whether \s*(am|pm) must follow.
TimeShapeAt(s, i, n1, sep, n2, suffix) ==
  With(i + n1, LAMBDA j :
  With(j + sep, LAMBDA k :
  With(k + n2, LAMBDA e :
  With(Run(s, e, SpaceChars), LAMBDA sp :
     /\ i + n1 - 1 <= Len(s)
     /\ AllIn(s, i, j - 1, DigitChars)
     /\ sep = 1 => Ch(s, j) \in {":", "."}
     /\ e - 1 <= Len(s)
     /\ AllIn(s, k, e - 1, DigitChars)
     /\ suffix => \E w \in 0..sp : MatchAt(s, e + w, "am") \/ MatchAt(s, e + w, "pm")))))

\* The shapes in the order a backtracking matcher tries them: each
\* quantifier is greedy.
TimeShapes(minN2) ==
  With(
             << <<2, 1, 2>>, <<2, 1, 1>>, <<2, 1, 0>>, <<2, 0, 2>>, <<2, 0, 1>>, <<2, 0, 0>>,
                <<1, 1, 2>>, <<1, 1, 1>>, <<1, 1, 0>>, <<1, 0, 2>>, <<1, 0, 1>>, <<1, 0, 0>> >>,
    LAMBDA all :
     SelectSeq(all, LAMBDA t : t[3] >= minN2))

\* The first match of the expression in s: <<start, n1, sep, n2>>, or << >>.
TimeMatch(s, minN2, suffix) ==
  With(TimeShapes(minN2), LAMBDA shapes :
  LET ok(i, x) == TimeShapeAt(s, i, shapes[x][1], shapes[x][2], shapes[x][3], suffix)
  IN
  With({i \in 1..Len(s) : \E x \in DOMAIN shapes : ok(i, x)}, LAMBDA starts :
     IF starts = {} THEN << >>
     ELSE With(CHOOSE a \in starts : \A b \in starts : a <= b, LAMBDA i :
          With(
                   CHOOSE a \in DOMAIN shapes :
                     ok(i, a) /\ \A b \in 1..(a - 1) : ~ok(i, b),
            LAMBDA x :
             <<i>> \o shapes[x]))))

\* The suffix the am/pm expression captured after the digits at position e.
AmPmAt(s, e) ==
  With(Run(s, e, SpaceChars), LAMBDA sp :
  With(
           CHOOSE a \in 0..sp :
             /\ MatchAt(s, e + a, "am") \/ MatchAt(s, e + a, "pm")
             /\ \A b \in (a + 1)..sp : ~(MatchAt(s, e + b, "am") \/ MatchAt(s, e + b, "pm")),
    LAMBDA w :
     SubSeq(s, e + w, e + w + 1)))

FormatTimeUnpadded(hour, minute) == NumToString(hour) \o ":" \o NumToString(minute)

\* hour.toString().padStart(2, '0') + ':' + minute.toString().padStart(2, '0')
FormatTime(hour, minute) ==
  PadStart2(NumToString(hour)) \o ":" \o PadStart2(NumToString(minute))

parseTime(timeStr) ==
  With(ToLower(Trim(timeStr)), LAMBDA time :
     IF Len(time) = 4 /\ AllIn(time, 1, 4, DigitChars)
     THEN FormatTime(ParseInt(SubSeq(time, 1, 2)), ParseInt(SubSeq(time, 3, 4)))
     ELSE IF Includes(time, "pm") \/ Includes(time, "am")
     THEN With(TimeMatch(time, 0, TRUE), LAMBDA m :
             IF m = << >> THEN NULL
             ELSE With(ParseInt(SubSeq(time, m[1], m[1] + m[2] - 1)), LAMBDA h0 :
                  With(SubSeq(time, m[1] + m[2] + m[3], m[1] + m[2] + m[3] + m[4] - 1), LAMBDA ms :
                  With(IF ms = "" THEN 0 ELSE ParseInt(ms), LAMBDA minute :
                  With(AmPmAt(time, m[1] + m[2] + m[3] + m[4]), LAMBDA ap :
                  With(
                              IF ap = "pm" /\ h0 # 12 THEN h0 + 12
                              ELSE IF ap = "am" /\ h0 = 12 THEN 0 ELSE h0,
                    LAMBDA hour :
                     FormatTime(hour, minute)))))))
     ELSE With(TimeMatch(time, 2, FALSE), LAMBDA m :
             IF m = << >> THEN NULL
             ELSE FormatTime(ParseInt(SubSeq(time, m[1], m[1] + m[2] - 1)),
                             ParseInt(SubSeq(time, m[1] + m[2] + m[3],
                                             m[1] + m[2] + m[3] + m[4] - 1)))))

\* ------------------------------------------------------------------------
\* normalizeOCRArtifacts
\* ------------------------------------------------------------------------

\* s matches p at position i, letter case ignored (the i flag)
MatchAtCI(s, i, p) ==
  i >= 1 /\ i + Len(p) - 1 <= Len(s) /\ ToLower(SubSeq(s, i, i + Len(p) - 1)) = ToLower(p)

DashChars == {EMDASH, ENDASH, "-"}
\* [A-Za-z'\-] with U+2019: the characters of a composer's name
NameChars == AlphaChars \cup {RQUOTE, "'", "-"}

\* /(?<=\d)\s+(?=\d)/g -> ''
SplitDigitsAt(s, i) ==
  With(Run(s, i, SpaceChars), LAMBDA n :
     IF n >= 1 /\ Ch(s, i - 1) \in DigitChars /\ Ch(s, i + n) \in DigitChars
     THEN <<i + n, "">>
     ELSE << >>)

JoinSplitDigits(s) == ReplaceAll(s, SplitDigitsAt)

\* /\bHymn\s+s\b/gi -> 'Hymns'
HymnSAt(s, i) ==
  With(Run(s, i + 4, SpaceChars), LAMBDA n :
     IF /\ WordBoundary(s, i) /\ MatchAtCI(s, i, "Hymn") /\ n >= 1
        /\ Ch(s, i + 4 + n) \in {"s", "S"} /\ WordBoundary(s, i + 5 + n)
     THEN <<i + 5 + n, "Hymns">>
     ELSE << >>)

FixHymnS(s) == ReplaceAll(s, HymnSAt)

noJoinNext == {"flat", "sharp", "major", "minor"}

\* /\b([A-Z])\s+([a-z]{2,})\b/g -> a + b unless b is a key word
SplitCapitalAt(s, i) ==
  With(Run(s, i + 1, SpaceChars), LAMBDA n :
  With(Run(s, i + 1 + n, LowerChars), LAMBDA m :
  With(i + 1 + n + m, LAMBDA e :
     IF /\ WordBoundary(s, i) /\ Ch(s, i) \in UpperChars /\ n >= 1 /\ m >= 2
        /\ Ch(s, e) \notin WordChars
     THEN <<e, IF SubSeq(s, i + 1 + n, e - 1) \in noJoinNext
               THEN SubSeq(s, i, e - 1)
               ELSE Ch(s, i) \o SubSeq(s, i + 1 + n, e - 1)>>
     ELSE << >>)))

JoinSplitCapital(s) == ReplaceAll(s, SplitCapitalAt)

\* The end of a match of the L'Estrange expression (L, spaces, quotes or
\* hyphens, spaces, an optional dash and spaces, Estrange; case ignored)
\* at i, or 0
LEstrangeEnd(s, i) ==
  With(i + 1 + Run(s, i + 1, SpaceChars), LAMBDA j :
  With(Run(s, j, {RQUOTE, "'", BACKTICK, "-"}), LAMBDA k :
  With(j + k + Run(s, j + k, SpaceChars), LAMBDA p :
  With(p + 1 + Run(s, p + 1, SpaceChars), LAMBDA q :
     IF Ch(s, i) \notin {"L", "l"} \/ k = 0 THEN 0
     ELSE IF MatchAtCI(s, p, "Estrange") THEN p + 8
     ELSE IF Ch(s, p) \in {"-", EMDASH} /\ MatchAtCI(s, q, "Estrange") THEN q + 8
     ELSE 0))))

LEstrangeAt(s, i) ==
  With(LEstrangeEnd(s, i), LAMBDA e :
     IF e > 0 THEN <<e, "L" \o RQUOTE \o "Estrange">> ELSE << >>)

FixLEstrange(s) == ReplaceAll(s, LEstrangeAt)

\* s from position i to its end is one [A-Z][A-Za-z'\-]+ token
IsNameToEnd(s, i) ==
  /\ i + 1 <= Len(s)
  /\ Ch(s, i) \in UpperChars
  /\ AllIn(s, i + 1, Len(s), NameChars)

\* /^Mass\s+for\s+~\s+(.+?)\s+([A-Z][A-Za-z'\-]+)$/ -> 'Mass for $1 ~ $2'
FixMassForWhole(s) ==
  With(Run(s, 5, SpaceChars), LAMBDA n1 :
  With(5 + n1, LAMBDA f :
  With(Run(s, f + 3, SpaceChars), LAMBDA n2 :
  With(f + 3 + n2, LAMBDA d :
  With(Run(s, d + 1, SpaceChars), LAMBDA n3 :
      \* <<a, e>>: \s+ after the dash takes a spaces, $1 ends at e
  LET ok(a, e) == /\ e >= d + 1 + a
                  /\ Ch(s, e + 1) \in SpaceChars
                  /\ IsNameToEnd(s, e + 1 + Run(s, e + 1, SpaceChars))
  IN
  With({x \in (1..n3) \X (1..Len(s)) : ok(x[1], x[2])}, LAMBDA cands :
     IF /\ MatchAt(s, 1, "Mass") /\ n1 >= 1 /\ MatchAt(s, f, "for") /\ n2 >= 1
        /\ Ch(s, d) = EMDASH /\ cands # {}
     THEN With(
                   CHOOSE c \in cands : \A o \in cands :
                     c[1] > o[1] \/ (c[1] = o[1] /\ c[2] <= o[2]),
            LAMBDA x :
          With(x[2] + 1 + Run(s, x[2] + 1, SpaceChars), LAMBDA t :
             "Mass for " \o SubSeq(s, d + 1 + x[1], x[2]) \o " " \o EMDASH \o " " \o From(s, t)))
     ELSE s))))))

\* The end of a match of /\b(Mass\s+for)/i at i, or 0
MassForEnd(s, i) ==
  With(Run(s, i + 4, SpaceChars), LAMBDA n1 :
  With(i + 4 + n1, LAMBDA f :
     IF MatchAtCI(s, i, "Mass") /\ n1 >= 1 /\ MatchAtCI(s, f, "for") THEN f + 3 ELSE 0))

\* /\b(Mass\s+for)\s+[~^-]\s+/i -> '$1 ' (the first match only)
MassForDashAt(s, i) ==
  With(MassForEnd(s, i), LAMBDA f :
  With(Run(s, f, SpaceChars), LAMBDA n2 :
  With(f + n2, LAMBDA d :
  With(Run(s, d + 1, SpaceChars), LAMBDA n3 :
     IF WordBoundary(s, i) /\ f > 0 /\ n2 >= 1 /\ Ch(s, d) \in DashChars /\ n3 >= 1
     THEN <<d + 1 + n3, SubSeq(s, i, f - 1) \o " ">>
     ELSE << >>))))

FixMassForDash(s) == ReplaceFirst(s, MassForDashAt)

\* /\bof\s+~\s+/gi -> 'of '
OfDashAt(s, i) ==
  With(Run(s, i + 2, SpaceChars), LAMBDA n1 :
  With(i + 2 + n1, LAMBDA d :
  With(Run(s, d + 1, SpaceChars), LAMBDA n2 :
     IF /\ WordBoundary(s, i) /\ MatchAtCI(s, i, "of") /\ n1 >= 1
        /\ Ch(s, d) = EMDASH /\ n2 >= 1
     THEN <<d + 1 + n2, "of ">>
     ELSE << >>)))

FixOfDash(s) == ReplaceAll(s, OfDashAt)

normalizeOCRArtifacts(text) ==
  With(JoinSplitDigits(text), LAMBDA t1 :
  With(FixHymnS(t1), LAMBDA t2 :
  With(JoinSplitCapital(t2), LAMBDA t3 :
  With(FixLEstrange(t3), LAMBDA t4 :
  With(FixMassForWhole(t4), LAMBDA t5 :
  With(FixMassForDash(t5), LAMBDA t6 :
     FixOfDash(t6)))))))

\* ------------------------------------------------------------------------
\* normalizePieceTitle
\* ------------------------------------------------------------------------

\* /(Mass\s+for)\s*[~^-]\s*/gi -> '$1 '
MassForAnyDashAt(s, i) ==
  With(MassForEnd(s, i), LAMBDA f :
  With(f + Run(s, f, SpaceChars), LAMBDA d :
     IF f > 0 /\ Ch(s, d) \in DashChars
     THEN <<d + 1 + Run(s, d + 1, SpaceChars), SubSeq(s, i, f - 1) \o " ">>
     ELSE << >>))

CleanMassForDash(s) == ReplaceAll(s, MassForAnyDashAt)

\* The last position of an [A-Z][class]+ token that starts at t, or 0
TokenEnd(s, t, class) ==
  IF Ch(s, t) \in UpperChars /\ Run(s, t + 1, class) >= 1 THEN t + Run(s, t + 1, class) ELSE 0

\* A match of /\bof\s+[~^-]\s+(St(?:\.?|aint)?\s+NAME)\s+(NAME)/ at i:
\* <<start of $1, end of $1, start of $2, end of $2>>, or << >>
OfSaintAt(s, i) ==
  With(Run(s, i + 2, SpaceChars), LAMBDA n1 :
  With(i + 2 + n1, LAMBDA d :
  With(Run(s, d + 1, SpaceChars), LAMBDA n2 :
  With(d + 1 + n2, LAMBDA a :
  With(
            IF Ch(s, a + 2) = "." THEN {a + 3}
            ELSE {a + 2} \cup (IF MatchAt(s, a + 2, "aint") THEN {a + 6} ELSE {}),
    LAMBDA bs :
  LET t1(b) == b + Run(s, b, SpaceChars)
  IN
  LET e1(b) == TokenEnd(s, t1(b), NameChars)
  IN
  LET t2(b) == e1(b) + 1 + Run(s, e1(b) + 1, SpaceChars)
  IN
  LET e2(b) == TokenEnd(s, t2(b), NameChars)
  IN
  LET ok(b) == /\ Ch(s, b) \in SpaceChars /\ e1(b) > 0
               /\ Ch(s, e1(b) + 1) \in SpaceChars /\ e2(b) > 0
  IN
  With({b \in bs : ok(b)}, LAMBDA good :
     IF /\ WordBoundary(s, i) /\ MatchAt(s, i, "of") /\ n1 >= 1 /\ Ch(s, d) \in DashChars
        /\ n2 >= 1 /\ MatchAt(s, a, "St") /\ good # {}
     THEN With(CHOOSE x \in good : TRUE, LAMBDA b :
             <<a, e1(b), t2(b), e2(b)>>)
     ELSE << >>))))))

\* text.replace(that expression, 'of $1 ~ $2'): the first match only
OfSaintEditAt(s, i) ==
  With(OfSaintAt(s, i), LAMBDA m :
     IF m # << >>
     THEN <<m[4] + 1, "of " \o SubSeq(s, m[1], m[2]) \o " " \o EMDASH \o " "
                        \o SubSeq(s, m[3], m[4])>>
     ELSE << >>)

FixOfSaint(s) == ReplaceFirst(s, OfSaintEditAt)

\* /\s+-\s+~\s+/g -> ' ~ '
HyphenDashAt(s, i) ==
  With(Run(s, i, SpaceChars), LAMBDA n1 :
  With(i + n1, LAMBDA h :
  With(Run(s, h + 1, SpaceChars), LAMBDA n2 :
  With(h + 1 + n2, LAMBDA d :
  With(Run(s, d + 1, SpaceChars), LAMBDA n3 :
     IF n1 >= 1 /\ Ch(s, h) = "-" /\ n2 >= 1 /\ Ch(s, d) = EMDASH /\ n3 >= 1
     THEN <<d + 1 + n3, " " \o EMDASH \o " ">>
     ELSE << >>)))))

CollapseDashes(s) == ReplaceAll(s, HyphenDashAt)

\* "A ~ B": the canonical form of a work A by a composer B
Joined(work, composer) == Trim(work) \o " " \o EMDASH \o " " \o Trim(composer)

\* /^(.+?):\s*(.+)$/: the position of the colon, or 0
ColonAt(s) ==
  With({c \in 2..(Len(s) - 1) : Ch(s, c) = ":"}, LAMBDA cs :
     IF cs = {} THEN 0 ELSE CHOOSE c \in cs : \A o \in cs : c <= o)

\* /^(.+?)\s{2,}(.+)$/: the end of $1, or 0
WideGapAt(s) ==
  With({e \in 1..(Len(s) - 3) : Ch(s, e + 1) \in SpaceChars /\ Ch(s, e + 2) \in SpaceChars}, LAMBDA es :
     IF es = {} THEN 0 ELSE CHOOSE e \in es : \A o \in es : e <= o)

\* /^(Psalm\s+[\d\.^\-]+)\s+([A-Z][a-zA-Z\s\.]*?)$/i:
\* <<end of $1, start of $2>>, or << >>
PsalmComposerAt(s) ==
  With(Run(s, 6, SpaceChars), LAMBDA n1 :
  With(6 + n1, LAMBDA r :
  With(Run(s, r, DigitChars \cup {".", ENDASH, "-"}), LAMBDA k :
  With(Run(s, r + k, SpaceChars), LAMBDA n2 :
  With(r + k + n2, LAMBDA c :
     IF /\ MatchAtCI(s, 1, "Psalm") /\ n1 >= 1 /\ k >= 1 /\ n2 >= 1
        /\ Ch(s, c) \in AlphaChars
        /\ AllIn(s, c + 1, Len(s), AlphaChars \cup SpaceChars \cup {"."})
     THEN <<r + k - 1, c>>
     ELSE << >>)))))

\* A match of /\bMass\s+for\s+~\s+([^~;]+?)\s+([A-Z][A-Za-z'\-]+)\b/ at i:
\* <<start of $1, end of $1, start of $2, end of $2>>, or << >>
MassForVoicesAt(s, i) ==
  With(Run(s, i + 4, SpaceChars), LAMBDA n1 :
  With(i + 4 + n1, LAMBDA f :
  With(Run(s, f + 3, SpaceChars), LAMBDA n2 :
  With(f + 3 + n2, LAMBDA d :
  With(Run(s, d + 1, SpaceChars), LAMBDA n3 :
      \* \s+ takes a spaces, $1 ends at e, $2 has k characters
  LET t(e) == e + 1 + Run(s, e + 1, SpaceChars)
  IN
  LET ok(a, e, k) ==
                    
        /\ e >= d + 1 + a
        /\ AllIn(s, d + 1 + a, e, {Ch(s, x) : x \in 1..Len(s)} \ {EMDASH, ";"})
        /\ Ch(s, e + 1) \in SpaceChars
        /\ k >= 2 /\ Ch(s, t(e)) \in UpperChars
        /\ AllIn(s, t(e) + 1, t(e) + k - 1, NameChars)
        /\ t(e) + k - 1 <= Len(s)
        /\ WordBoundary(s, t(e) + k)
  IN
  With({x \in (1..n3) \X (1..Len(s)) \X (2..Len(s)) : ok(x[1], x[2], x[3])}, LAMBDA cands :
     IF /\ WordBoundary(s, i) /\ MatchAt(s, i, "Mass") /\ n1 >= 1 /\ MatchAt(s, f, "for")
        /\ n2 >= 1 /\ Ch(s, d) = EMDASH /\ cands # {}
     THEN With(
                   CHOOSE c \in cands : \A o \in cands :
                     \/ c[1] > o[1]
                     \/ c[1] = o[1] /\ c[2] < o[2]
                     \/ c[1] = o[1] /\ c[2] = o[2] /\ c[3] >= o[3],
            LAMBDA x :
             <<d + 1 + x[1], x[2], t(x[2]), t(x[2]) + x[3] - 1>>)
     ELSE << >>))))))

\* text.replace(that expression, 'Mass for $1 ~ $2'): the first match only
MassForVoicesEditAt(s, i) ==
  With(MassForVoicesAt(s, i), LAMBDA m :
     IF m # << >>
     THEN <<m[4] + 1, "Mass for " \o SubSeq(s, m[1], m[2]) \o " " \o EMDASH \o " "
                        \o SubSeq(s, m[3], m[4])>>
     ELSE << >>)

FixMassForVoices(s) == ReplaceFirst(s, MassForVoicesEditAt)

\* (?:\s+[A-Z][A-Za-z'\-\.]+)*\s*$ from position p, the one after a token:
\* the end of the last token (p - 1 when no token follows), or 0
RECURSIVE MoreNamesEnd(_, _)
MoreNamesEnd(s, p) ==
  With(Run(s, p, SpaceChars), LAMBDA sp :
  With(TokenEnd(s, p + sp, NameChars \cup {"."}), LAMBDA e :
     IF p + sp > Len(s) THEN p - 1
     ELSE IF sp >= 1 /\ e > 0 THEN MoreNamesEnd(s, e + 1)
     ELSE 0))

\* /^(.+?)\s+([A-Z][A-Za-z'\-]+(?:\s+[A-Z][A-Za-z'\-\.]+)*)\s*$/:
\* <<end of $1, start of $2, end of $2>>, or << >>
TrailingComposerAt(s) ==
  LET t(e) == e + 1 + Run(s, e + 1, SpaceChars)
  IN
  LET e1(e) == TokenEnd(s, t(e), NameChars)
  IN
  LET ok(e) == /\ Ch(s, e + 1) \in SpaceChars
               /\ e1(e) > 0
               /\ MoreNamesEnd(s, e1(e) + 1) > 0
  IN
  With({e \in 1..Len(s) : ok(e)}, LAMBDA es :
     IF es = {} THEN << >>
     ELSE With(CHOOSE x \in es : \A o \in es : x <= o, LAMBDA e :
             <<e, t(e), MoreNamesEnd(s, e1(e) + 1)>>))

HasDigit(s) == \E k \in 1..Len(s) : Ch(s, k) \in DigitChars

\* the trailing-composer rule, applied to the text after the Mass-for rule
TitleByTrailingComposer(text, tail) ==
  IF tail # << >> /\ ~HasDigit(text) /\ tail[3] - tail[2] + 1 < 30
  THEN Joined(Upto(text, tail[1]), SubSeq(text, tail[2], tail[3]))
  ELSE text

TitleAfterMassFor(text) == TitleByTrailingComposer(text, TrailingComposerAt(text))

\* the colon, wide-gap and psalm rules in turn, then the rest
TitleBySeparator(text, colon, gap, psalm) ==
  IF colon > 0 THEN Joined(From(text, colon + 1), Upto(text, colon - 1))
  ELSE IF gap > 0 THEN Joined(Upto(text, gap), From(text, gap + 1))
  ELSE IF psalm # << >> THEN Joined(Upto(text, psalm[1]), From(text, psalm[2]))
  ELSE TitleAfterMassFor(FixMassForVoices(text))

TitleOfCleaned(text) ==
  TitleBySeparator(text, ColonAt(text), WideGapAt(text), PsalmComposerAt(text))

\* a text that already holds the dash is returned as it is
TitleOfArtifactFree(text) ==
  IF Includes(text, EMDASH) THEN text
  ELSE TitleOfCleaned(CollapseDashes(FixOfSaint(CleanMassForDash(text))))

normalizePieceTitle(title) == TitleOfArtifactFree(normalizeOCRArtifacts(Trim(title)))

\* ------------------------------------------------------------------------
\* classifyPiece
\* ------------------------------------------------------------------------

IncludesAny(s, words) == \E w \in words : Includes(s, w)

\* /^[A-Z][a-z]+\s+in\s+[A-Z]\s*(minor|major|flat|sharp|-\s*flat|-\s*sharp)?$/i
IsComposerInKey(s) ==
  With(Run(s, 1, AlphaChars), LAMBDA w :
  With(Run(s, w + 1, SpaceChars), LAMBDA n1 :
  With(w + 1 + n1, LAMBDA p :
  With(Run(s, p + 2, SpaceChars), LAMBDA n2 :
  With(p + 2 + n2, LAMBDA k :
  With(ToLower(From(s, k + 1 + Run(s, k + 1, SpaceChars))), LAMBDA rest :
  With(IF Ch(rest, 1) = "-" THEN From(rest, 2 + Run(rest, 2, SpaceChars)) ELSE rest, LAMBDA mode :
     /\ w >= 2 /\ n1 >= 1 /\ MatchAtCI(s, p, "in") /\ n2 >= 1
     /\ Ch(s, k) \in AlphaChars
     /\ \/ rest \in {"", "minor", "major", "flat", "sharp"}
        \/ Ch(rest, 1) = "-" /\ mode \in {"flat", "sharp"})))))))

ClassifyAsOther(text) == "other"

classifyPiece(text) ==
  With(ToLower(text), LAMBDA lower :
     IF IncludesAny(lower, {"prelude", "postlude", "processional", "voluntary",
                            "toccata", "fugue"}) THEN "organ"
     ELSE IF Includes(lower, "hymn") THEN "hymns"
     ELSE IF Includes(lower, "psalm") THEN "psalms"
     ELSE IF Includes(lower, "anthem") THEN "anthems"
     ELSE IF IncludesAny(lower, {"magnificat", "nunc dimittis", "responses", "service"})
     THEN "settings"
     ELSE IF IsComposerInKey(text) THEN "settings"
     ELSE "anthems")

\* ------------------------------------------------------------------------
\* splitPsalmSection, splitMultiplePieces
\* ------------------------------------------------------------------------

\* content.split(/,\s*/).map(p => p.trim())
RECURSIVE SplitOnCommas(_)
SplitOnCommas(s) ==
  With(IndexOf(s, ","), LAMBDA c :
     IF c = 0 THEN <<Trim(s)>>
     ELSE <<Trim(Upto(s, c - 1))>> \o SplitOnCommas(From(s, c + 1)))

\* the loop of splitPsalmSection over parts[k..]
RECURSIVE GroupPsalmParts(_, _, _)
GroupPsalmParts(parts, k, result) ==
  IF k > Len(parts) THEN result
  ELSE With(parts[k], LAMBDA part :
          IF Ch(part, 1) \in DigitChars \/ result = << >>
          THEN GroupPsalmParts(parts, k + 1, Append(result, "Psalm " \o part))
          ELSE GroupPsalmParts(parts, k + 1,
                 [result EXCEPT ![Len(result)] = @ \o " " \o part]))

\* The position after /Psalms?\s+/i (word = "Psalm") or /Hymns?\s+/i at p when
\* at least one character follows it, or 0
MarkerEnd(s, p, word) ==
  With(p + Len(word) + (IF Ch(s, p + Len(word)) \in {"s", "S"} THEN 1 ELSE 0), LAMBDA q :
  With(Run(s, q, SpaceChars), LAMBDA n :
     IF MatchAtCI(s, p, word) /\ n >= 1 /\ q + 1 <= Len(s)
     THEN (IF q + n <= Len(s) THEN q + n ELSE q + n - 1)
     ELSE 0))

splitPsalmSection(section) ==
  With(MarkerEnd(section, 1, "Psalm"), LAMBDA c :
     IF c > 0 THEN GroupPsalmParts(SplitOnCommas(From(section, c)), 1, << >>)
     ELSE <<section>>)

\* line.replace(/\s+Preacher:\s+.+$/i, '')
StripPreacher(line) ==
  LET ok(i) == With(i + Run(line, i, SpaceChars), LAMBDA j :
                  /\ Ch(line, i) \in SpaceChars
                  /\ MatchAtCI(line, j, "Preacher:")
                  /\ Ch(line, j + 9) \in SpaceChars
                  /\ j + 10 <= Len(line))
  IN
  With({i \in 1..Len(line) : ok(i)}, LAMBDA is :
     IF is = {} THEN line
     ELSE Upto(line, (CHOOSE i \in is : \A o \in is : i <= o) - 1))

\* /^([A-Z][a-z]+\s+in\s+[A-Za-z\s\-]+?)\s+(Responses\s+.+)$/i:
\* <<end of $1, start of $2>>, or << >>
SettingResponsesAt(s) ==
  With(Run(s, 1, AlphaChars), LAMBDA w :
  With(Run(s, w + 1, SpaceChars), LAMBDA n1 :
  With(w + 1 + n1, LAMBDA p :
  With(Run(s, p + 2, SpaceChars), LAMBDA n2 :
  LET r(e) == e + 1 + Run(s, e + 1, SpaceChars)
  IN
      \* \s+ after "in" takes a spaces, $1 ends at e
  LET ok(a, e) == /\ e >= p + 2 + a
                  /\ AllIn(s, p + 2 + a, e, AlphaChars \cup SpaceChars \cup {"-"})
                  /\ Ch(s, e + 1) \in SpaceChars
                  /\ MatchAtCI(s, r(e), "Responses")
                  /\ Ch(s, r(e) + 9) \in SpaceChars
                  /\ r(e) + 10 <= Len(s)
  IN
  With({x \in (1..n2) \X (1..Len(s)) : ok(x[1], x[2])}, LAMBDA cands :
     IF w >= 2 /\ n1 >= 1 /\ MatchAtCI(s, p, "in") /\ cands # {}
     THEN With(
                   CHOOSE c \in cands : \A o \in cands :
                     c[1] > o[1] \/ (c[1] = o[1] /\ c[2] <= o[2]),
            LAMBDA x :
             <<x[2], r(x[2])>>)
     ELSE << >>)))))

\* /^(.+?)\s+(Psalms?\s+.+)$/i and /^(.+?)\s+(Hymns?\s+.+)$/i:
\* <<end of $1, start of $2>>, or << >>
MarkerAt(s, word) ==
  LET r(e) == e + 1 + Run(s, e + 1, SpaceChars)
  IN
  With({e \in 1..Len(s) : Ch(s, e + 1) \in SpaceChars /\ MarkerEnd(s, r(e), word) > 0}, LAMBDA es :
     IF es = {} THEN << >>
     ELSE With(CHOOSE x \in es : \A o \in es : x <= o, LAMBDA e :
             <<e, r(e)>>))

WholeLineOnly(line) == <<Trim(StripPreacher(line))>>

splitMultiplePieces(line) ==
  With(Trim(StripPreacher(line)), LAMBDA cleanLine :
  With(SettingResponsesAt(cleanLine), LAMBDA sr :
  With(MarkerAt(cleanLine, "Psalm"), LAMBDA pm :
  With(MarkerAt(cleanLine, "Hymn"), LAMBDA hm :
  LET before(m) == Trim(Upto(cleanLine, m[1]))
  IN
  LET after(m) == Trim(From(cleanLine, m[2]))
  IN
     IF sr # << >> THEN <<before(sr), after(sr)>>
     ELSE IF pm # << >>
     THEN (IF before(pm) # "" THEN <<before(pm)>> ELSE << >>) \o splitPsalmSection(after(pm))
     ELSE IF hm # << >>
     THEN (IF before(hm) # "" THEN <<before(hm)>> ELSE << >>) \o <<after(hm)>>
     ELSE <<cleanLine>>))))

\* ------------------------------------------------------------------------
\* canonicalizeSettingPiece
\* ------------------------------------------------------------------------

\* s.replace(/\s+/g, ' ')
SpacesAt(s, i) ==
  With(Run(s, i, SpaceChars), LAMBDA n : IF n >= 1 THEN <<i + n, " ">> ELSE << >>)

CollapseSpaces(s) == ReplaceAll(s, SpacesAt)

\* s.replace(/\s*-\s*/g, ' - ')
HyphenAt(s, i) ==
  With(i + Run(s, i, SpaceChars), LAMBDA h :
     IF Ch(s, h) = "-" THEN <<h + 1 + Run(s, h + 1, SpaceChars), " - ">> ELSE << >>)

SpaceHyphens(s) == ReplaceAll(s, HyphenAt)

\* s.replace(/\s*no\.\s*/i, 'no. '): the first match only
NumberAt(s, i) ==
  With(i + Run(s, i, SpaceChars), LAMBDA h :
     IF MatchAtCI(s, h, "no.") THEN <<h + 3 + Run(s, h + 3, SpaceChars), "no. ">>
     ELSE << >>)

SpaceNumber(s) == ReplaceFirst(s, NumberAt)

\* /^([A-Z][A-Za-z\.\s]+?)\s+in\s+(.+)$/: <<end of $1, start of $2>>, or << >>
ComposerInAt(s) ==
  LET p(e) == e + 1 + Run(s, e + 1, SpaceChars)
  IN
  LET ok(e) == /\ AllIn(s, 2, e, AlphaChars \cup SpaceChars \cup {"."})
               /\ Ch(s, e + 1) \in SpaceChars
               /\ MatchAt(s, p(e), "in")
               /\ Ch(s, p(e) + 2) \in SpaceChars
               /\ p(e) + 3 <= Len(s)
  IN
  With({e \in 2..Len(s) : ok(e)}, LAMBDA es :
     IF Ch(s, 1) \in UpperChars /\ es # {}
     THEN With(CHOOSE x \in es : \A o \in es : x <= o, LAMBDA e :
             <<e, p(e) + 2>>)
     ELSE << >>)

SettingPrefixService(serviceTitle) == "Service in "

\* the words canonicalizeSettingPiece puts before the key
SettingPrefix(serviceTitle) ==
  With(ToLower(serviceTitle), LAMBDA lower :
     IF IncludesAny(lower, {"evensong", "evening prayer"}) THEN "Mag and Nunc in "
     ELSE IF IncludesAny(lower, {"eucharist", "mass"}) THEN "Mass in "
     ELSE "Service in ")

canonicalizeSettingPiece(pieceText, serviceTitle) ==
  With(ToLower(pieceText), LAMBDA lower :
  With(ComposerInAt(pieceText), LAMBDA m :
  With(CollapseSpaces(Trim(Upto(pieceText, m[1]))), LAMBDA composer :
  With(SpaceNumber(SpaceHyphens(Trim(From(pieceText, m[2])))), LAMBDA key :
     IF IncludesAny(lower, {"magnificat", "nunc dimittis", "te deum", "jubilate",
                            "responses", "canticles", "service"})
     THEN normalizePieceTitle(pieceText)
     ELSE IF m # << >>
     THEN SettingPrefix(serviceTitle) \o key \o " " \o EMDASH \o " " \o composer
     ELSE normalizePieceTitle(pieceText)))))

\* ------------------------------------------------------------------------
\* Dates: Date.UTC, getFullYear, parseDate
\* ------------------------------------------------------------------------

\* the day number of the civil date year-month-day (month 1..12); a day
\* outside the month rolls over as in Date.UTC
DaysFromCivil(year, month, day) ==
  With(IF month <= 2 THEN year - 1 ELSE year, LAMBDA y :
  With(y \div 400, LAMBDA era :
  With(y - era * 400, LAMBDA yoe :
  With(IF month > 2 THEN month - 3 ELSE month + 9, LAMBDA mp :
  With((153 * mp + 2) \div 5 + day - 1, LAMBDA doy :
  With(yoe * 365 + yoe \div 4 - yoe \div 100 + doy, LAMBDA doe :
     era * 146097 + doe - 719468))))))

\* date.getFullYear() of an instant (the process runs in UTC)
FullYear(instant) ==
  With(instant \div 1440 + 719468, LAMBDA z :
  With(z \div 146097, LAMBDA era :
  With(z - era * 146097, LAMBDA doe :
  With((doe - doe \div 1460 + doe \div 36524 - doe \div 146096) \div 365, LAMBDA yoe :
  With(doe - (365 * yoe + yoe \div 4 - yoe \div 100), LAMBDA doy :
  With((5 * doy + 2) \div 153, LAMBDA mp :
     yoe + era * 400 + (IF mp < 10 THEN 0 ELSE 1)))))))

\* date.toISOString().split('T')[0]: the calendar date, as a day number
DateStr(instant) == instant \div 1440

months == <<"january", "february", "march", "april", "may", "june", "july",
            "august", "september", "october", "november", "december">>

\* The first match of /(\d{1,2})\s+(\w+)/ in s: <<day digits, word>>, or << >>
DayMonthMatch(s) ==
  LET ok(i, n) == /\ AllIn(s, i, i + n - 1, DigitChars)
                  /\ Ch(s, i + n) \in SpaceChars
                  /\ Ch(s, i + n + Run(s, i + n, SpaceChars)) \in WordChars
  IN
  With({i \in 1..Len(s) : ok(i, 2) \/ ok(i, 1)}, LAMBDA is :
     IF is = {} THEN << >>
     ELSE With(CHOOSE x \in is : \A o \in is : x <= o, LAMBDA i :
          With(IF ok(i, 2) THEN 2 ELSE 1, LAMBDA n :
          With(i + n + Run(s, i + n, SpaceChars), LAMBDA w :
             <<SubSeq(s, i, i + n - 1), SubSeq(s, w, w + Run(s, w, WordChars) - 1)>>))))

NoonUTC(year, monthIndex, day) ==
  (DaysFromCivil(year, monthIndex + 1, 1) + day - 1) * 1440 + 720

MidnightUTC(year, monthIndex, day) ==
  (DaysFromCivil(year, monthIndex + 1, 1) + day - 1) * 1440

\* parseDate: noon UTC of the day and month named in dateStr, or null
parseDate(dateStr, year) ==
  With(DayMonthMatch(ToLower(dateStr)), LAMBDA m :
  With({k \in DOMAIN months : months[k] = m[2]}, LAMBDA known :
     IF m # << >> /\ known # {}
     THEN Some(NoonUTC(year, (CHOOSE k \in known : TRUE) - 1, ParseInt(m[1])))
     ELSE None))

\* ------------------------------------------------------------------------
\* parsePDFBuffer: the lines of a document -> services and endDate
\* ------------------------------------------------------------------------

\* text.replace(/\s+/g, ' ').trim() of normalizeUnicode; the inputs are
\* ASCII, which NFKC and the ligature and soft-hyphen rules leave alone
normalizeUnicode(text) == Trim(CollapseSpaces(text))

\* A run of \w+ at w that is followed by white space: its length, or 0
WordThenSpace(s, w) ==
  With(Run(s, w, WordChars), LAMBDA n :
     IF n >= 1 /\ Ch(s, w + n) \in SpaceChars THEN n ELSE 0)

\* A match of /(\d{1,2})\s+(\w+)\s+[^~-]\s+(\d{1,2})\s+(\w+)\s+(\d{4})/ that
\* starts at i with n digits: <<$3, $4, $5>>, or << >>
DateRangeAt(s, i, n) ==
  With(i + n + Run(s, i + n, SpaceChars), LAMBDA w1 :
  With(WordThenSpace(s, w1), LAMBDA n1 :
  With(w1 + n1 + Run(s, w1 + n1, SpaceChars), LAMBDA d :
  With(d + 1 + Run(s, d + 1, SpaceChars), LAMBDA g3 :
  With(Run(s, g3, DigitChars), LAMBDA k3 :
  With(g3 + k3 + Run(s, g3 + k3, SpaceChars), LAMBDA w2 :
  With(WordThenSpace(s, w2), LAMBDA n2 :
  With(w2 + n2 + Run(s, w2 + n2, SpaceChars), LAMBDA y :
     IF /\ AllIn(s, i, i + n - 1, DigitChars) /\ i + n - 1 <= Len(s)
        /\ Ch(s, i + n) \in SpaceChars
        /\ n1 >= 1
        /\ Ch(s, d) \in DashChars
        /\ Ch(s, d + 1) \in SpaceChars
        /\ k3 \in {1, 2}
        /\ Ch(s, g3 + k3) \in SpaceChars
        /\ n2 >= 1
        /\ Run(s, y, DigitChars) >= 4
     THEN <<SubSeq(s, g3, g3 + k3 - 1), SubSeq(s, w2, w2 + n2 - 1), SubSeq(s, y, y + 3)>>
     ELSE << >>))))))))

\* line.match(that expression): <<$3, $4, $5>> of the first match, or << >>
DateRangeMatch(s) ==
  LET at(i) == IF DateRangeAt(s, i, 2) # << >> THEN DateRangeAt(s, i, 2)
               ELSE DateRangeAt(s, i, 1)
  IN
  With({i \in 1..Len(s) : at(i) # << >>}, LAMBDA is :
     IF is = {} THEN << >> ELSE at(CHOOSE x \in is : \A o \in is : x <= o))

\* "Extract date range from header": the endDate of the first of the first
\* ten lines that holds a date range, null when none does or its month is
\* not a month
RECURSIVE HeaderEndDate(_, _)
HeaderEndDate(lines, k) ==
  IF k > Len(lines) \/ k > 10 THEN None
  ELSE With(DateRangeMatch(lines[k]), LAMBDA m :
          IF m # << >>
          THEN parseDate(NumToString(ParseInt(m[1])) \o " " \o ToLower(m[2]), ParseInt(m[3]))
          ELSE HeaderEndDate(lines, k + 1))

Weekdays == {"SUNDAY", "MONDAY", "TUESDAY", "WEDNESDAY", "THURSDAY", "FRIDAY", "SATURDAY"}

\* /^(SUNDAY|...|SATURDAY)/i
StartsWithWeekday(line) == \E d \in Weekdays : MatchAtCI(line, 1, d)

\* /^(SUNDAY|...|SATURDAY)\s+(\d{1,2})\s+(\w+)/i: <<$2, $3>>, or << >>
DayHeaderMatch(line) ==
  With(CHOOSE d \in Weekdays : MatchAtCI(line, 1, d), LAMBDA wd :
  With(Len(wd) + 1 + Run(line, Len(wd) + 1, SpaceChars), LAMBDA g :
  With(Run(line, g, DigitChars), LAMBDA k :
  With(g + k + Run(line, g + k, SpaceChars), LAMBDA w :
  With(Run(line, w, WordChars), LAMBDA n :
     IF /\ StartsWithWeekday(line)
        /\ Ch(line, Len(wd) + 1) \in SpaceChars
        /\ k \in {1, 2}
        /\ Ch(line, g + k) \in SpaceChars
        /\ n >= 1
     THEN <<SubSeq(line, g, g + k - 1), SubSeq(line, w, w + n - 1)>>
     ELSE << >>)))))

\* The length of $1 in a match of
\* /^(\d{4}|\d{1,2}[:.]?\d{0,2}\s*(?:am|pm)?)\s+(.+?)$/i, or 0.  A shape is
\* <<digits, separator, digits, spaces, am/pm>>; the matcher prefers \d{4},
\* then the longest of each part from left to right.
TimeTokenLen(line) ==
  LET len(x) == x[1] + x[2] + x[3] + x[4] + x[5]
  IN
  LET ok(x) ==
              
        /\ AllIn(line, 1, x[1], DigitChars)
        /\ x[2] = 1 => Ch(line, x[1] + 1) \in {":", "."}
        /\ AllIn(line, x[1] + x[2] + 1, x[1] + x[2] + x[3], DigitChars)
        /\ AllIn(line, x[1] + x[2] + x[3] + 1, x[1] + x[2] + x[3] + x[4], SpaceChars)
        /\ x[5] = 2 => \/ MatchAtCI(line, len(x) - 1, "am")
                       \/ MatchAtCI(line, len(x) - 1, "pm")
        /\ Ch(line, len(x) + 1) \in SpaceChars
        /\ len(x) + 2 <= Len(line)
  IN
  With({x \in {1, 2} \X {0, 1} \X {0, 1, 2} \X (0..Len(line)) \X {0, 2} : ok(x)}, LAMBDA shapes :
  LET before(x, y) == \E k \in 1..5 : x[k] > y[k] /\ \A j \in 1..(k - 1) : x[j] = y[j]
  IN
     IF AllIn(line, 1, 4, DigitChars) /\ Ch(line, 5) \in SpaceChars /\ 6 <= Len(line)
     THEN 4
     ELSE IF shapes = {} THEN 0
     ELSE len(CHOOSE x \in shapes : \A y \in shapes : x = y \/ before(x, y)))

ServiceKeywords == {"Eucharist", "Evensong", "Morning Prayer", "Evening Prayer"}

\* the condition of "Service line"
IsServiceLine(line) ==
  /\ TimeTokenLen(line) > 0
  /\ ~Includes(line, "AUGUST") /\ ~Includes(line, "SEPTEMBER")
  /\ IncludesAny(line, ServiceKeywords)

\* /\(([^)]+)\)/: <<position of "(", position of ")">>, or << >>
ChoirMatch(s) ==
  LET close(i) == i + 1 + Run(s, i + 1, {Ch(s, x) : x \in 1..Len(s)} \ {")"})
  IN
  With({i \in 1..Len(s) : Ch(s, i) = "(" /\ close(i) >= i + 2 /\ Ch(s, close(i)) = ")"}, LAMBDA is :
     IF is = {} THEN << >>
     ELSE With(CHOOSE x \in is : \A o \in is : x <= o, LAMBDA i :
             <<i, close(i)>>))

EmptyPieces == [settings |-> << >>, anthems |-> << >>, psalms |-> << >>,
                hymns |-> << >>, organ |-> << >>]

\* currentService with one more piece, normalized and classified
AddPiece(svc, piece) ==
  With(normalizePieceTitle(piece), LAMBDA normalizedPiece :
  With(classifyPiece(piece), LAMBDA category :
     [svc EXCEPT !.allPieces = Append(@, normalizedPiece),
                 !.pieces = IF category # "other"
                            THEN [@ EXCEPT ![category] = Append(@, normalizedPiece)]
                            ELSE @]))

RECURSIVE AddPieces(_, _, _)
AddPieces(svc, pieces, k) ==
  IF k > Len(pieces) THEN svc ELSE AddPieces(AddPiece(svc, pieces[k]), pieces, k + 1)

\* the pieces a first piece (the text after the choir) contributes
FirstPieceWhole(firstPiece) == <<firstPiece>>

\* the text a service line carries after its choir, "" for none
TextAfterChoir(line) ==
  With(Trim(From(line, TimeTokenLen(line) + 1)), LAMBDA fullServiceLine :
  With(ChoirMatch(fullServiceLine), LAMBDA cm :
     IF cm # << >> THEN Trim(From(fullServiceLine, cm[2] + 1)) ELSE ""))

\* the record of a service line before its first piece
FreshService(line, currentDate) ==
  With(TimeTokenLen(line), LAMBDA n :
  With(parseTime(Upto(line, n)), LAMBDA time :
  With(Trim(From(line, n + 1)), LAMBDA fullServiceLine :
  With(ChoirMatch(fullServiceLine), LAMBDA cm :
     [date |-> currentDate, time |-> time,
      service |-> IF cm # << >> THEN Trim(Upto(fullServiceLine, cm[1] - 1))
                  ELSE fullServiceLine,
      choir |-> IF cm # << >> THEN SubSeq(fullServiceLine, cm[1] + 1, cm[2] - 1) ELSE "",
      pieces |-> EmptyPieces, allPieces |-> << >>, rawLines |-> << >>]))))

\* the record a service line opens
OpenService(line, currentDate) ==
  IF TextAfterChoir(line) # ""
  THEN AddPieces([FreshService(line, currentDate) EXCEPT !.rawLines = <<TextAfterChoir(line)>>],
                 FirstPieceWhole(TextAfterChoir(line)), 1)
  ELSE FreshService(line, currentDate)

\* The scan of parsePDFBuffer: st is [lines, endDate, i, currentDate,
\* currentService, services, done]; yearNow is new Date().getFullYear().
ParseStart(allLines, yearNow) ==
  With([k \in DOMAIN allLines |-> normalizeOCRArtifacts(normalizeUnicode(allLines[k]))], LAMBDA lines :
     [lines |-> lines, endDate |-> HeaderEndDate(lines, 1), i |-> 1,
      currentDate |-> None, currentService |-> None, services |-> << >>,
      yearNow |-> yearNow, done |-> FALSE])

IsDayHeader(st) == DayHeaderMatch(st.lines[st.i]) # << >>

\* a day header whose date does not parse ends the scan
DayHeaderAborting(st) ==
  With(DayHeaderMatch(st.lines[st.i]), LAMBDA m :
  With(IF st.endDate # None THEN FullYear(Val(st.endDate)) ELSE st.yearNow, LAMBDA year :
  With(parseDate(NumToString(ParseInt(m[1])) \o " " \o ToLower(m[2]), year), LAMBDA date :
     IF date = None THEN [st EXCEPT !.done = TRUE]
     ELSE [st EXCEPT !.currentDate = date, !.i = @ + 1])))

DayHeaderStep(st) ==
  With(DayHeaderMatch(st.lines[st.i]), LAMBDA m :
  With(IF st.endDate # None THEN FullYear(Val(st.endDate)) ELSE st.yearNow, LAMBDA year :
     [st EXCEPT !.currentDate = parseDate(NumToString(ParseInt(m[1])) \o " " \o ToLower(m[2]), year),
                !.i = @ + 1]))

\* a service line that opens its record over the open one
ServiceLineReplacing(st) ==
  [st EXCEPT !.currentService = Some(OpenService(st.lines[st.i], st.currentDate)),
             !.i = @ + 1]

ServiceLineStep(st) ==
  [st EXCEPT !.services = @ \o st.currentService,
             !.currentService = Some(OpenService(st.lines[st.i], st.currentDate)),
             !.i = @ + 1]

IsPieceLine(st) ==
  st.currentService # None /\ st.lines[st.i] # "" /\ ~StartsWithWeekday(st.lines[st.i])

\* a piece line kept in rawLines as its normalized title
PieceLineNormalized(st) ==
  With(st.lines[st.i], LAMBDA line :
     [st EXCEPT !.currentService =
                   Some(AddPieces([Val(@) EXCEPT !.rawLines = Append(@, normalizePieceTitle(line))],
                                  splitMultiplePieces(line), 1)),
                !.i = @ + 1])

PieceLineStep(st) ==
  With(st.lines[st.i], LAMBDA line :
     [st EXCEPT !.currentService =
                   Some(AddPieces([Val(@) EXCEPT !.rawLines = Append(@, line)],
                                  splitMultiplePieces(line), 1)),
                !.i = @ + 1])

SkipLineStep(st) == [st EXCEPT !.i = @ + 1]

FinishStep(st) ==
  [st EXCEPT !.services = @ \o st.currentService,
             !.currentService = None,
             !.done = TRUE]

\* which branch of the while loop the line at st.i takes; "end" when the
\* loop is over
LineKind(st) ==
  IF st.i > Len(st.lines) THEN "end"
  ELSE IF IsDayHeader(st) THEN "day"
  ELSE IF IsServiceLine(st.lines[st.i]) THEN "service"
  ELSE IF IsPieceLine(st) THEN "piece"
  ELSE "skip"

\* one turn of the while loop, or the code after it
ParseStep(st) ==
  With(LineKind(st), LAMBDA kind :
     IF kind = "end" THEN FinishStep(st)
     ELSE IF kind = "day" THEN DayHeaderStep(st)
     ELSE IF kind = "service" THEN ServiceLineStep(st)
     ELSE IF kind = "piece" THEN PieceLineStep(st)
     ELSE SkipLineStep(st))

RECURSIVE ParseRun(_)
ParseRun(st) == IF st.done THEN st ELSE ParseRun(ParseStep(st))

\* parsePDFBuffer: { services, endDate }
parsePDFBuffer(allLines, yearNow) ==
  With(ParseRun(ParseStart(allLines, yearNow)), LAMBDA st :
     [services |-> st.services, endDate |-> st.endDate])

\* ------------------------------------------------------------------------
\* Calendar text: toISOString
\* ------------------------------------------------------------------------

\* <<year, month, day>> of a day number
CivilFromDays(z) ==
  With(z + 719468, LAMBDA zz :
  With(zz \div 146097, LAMBDA era :
  With(zz - era * 146097, LAMBDA doe :
  With((doe - doe \div 1460 + doe \div 36524 - doe \div 146096) \div 365, LAMBDA yoe :
  With(doe - (365 * yoe + yoe \div 4 - yoe \div 100), LAMBDA doy :
  With((5 * doy + 2) \div 153, LAMBDA mp :
  With(IF mp < 10 THEN mp + 3 ELSE mp - 9, LAMBDA m :
     <<yoe + era * 400 + (IF m <= 2 THEN 1 ELSE 0), m, doy - (153 * mp + 2) \div 5 + 1>>)))))))

\* date.toISOString().split('T')[0] as text: "YYYY-MM-DD" (years 1000..9999)
ISODate(instant) ==
  With(CivilFromDays(DateStr(instant)), LAMBDA c :
     NumToString(c[1]) \o "-" \o PadStart2(NumToString(c[2])) \o "-" \o PadStart2(NumToString(c[3])))

\* date.toISOString() of an instant of whole minutes
ISOInstant(instant) ==
  ISODate(instant) \o "T" \o PadStart2(NumToString((instant % 1440) \div 60)) \o ":"
    \o PadStart2(NumToString(instant % 60)) \o ":00.000Z"

\* now.getUTCDay(): 0 is Sunday (day number 0 was a Thursday)
UTCDay(instant) == (DateStr(instant) + 4) % 7

\* ------------------------------------------------------------------------
\* The music list page, the documents behind its links, discoverLatestPDFs
\* ------------------------------------------------------------------------

MUSIC_LIST_URL == "https://leicestercathedral.org/music-list/"
MAX_PDFS == 3

\* The lines pdf.js yields for the documents the page has linked to
ListToFirstSeptember ==
  <<"Music List 31 August - 1 September 2025",
    "SUNDAY 31 AUGUST TRINITY 11",
    "1030 Sung Eucharist (Songmen)", "Darke in F",
    "1730 Choral Evensong (Songmen)", "Stanford in C",
    "MONDAY 1 SEPTEMBER",
    "1730 Evensong (Boys and Songmen)", "Psalm 23 Goss">>

ListToEndOfAugust ==
  <<"Music List 24 August - 31 August 2025",
    "SATURDAY 30 AUGUST",
    "1730 Evensong (Senior Girls)", "Responses Rose",
    "SUNDAY 31 AUGUST TRINITY 11",
    "1030 Sung Eucharist (Songmen)", "Darke in F",
    "1730 Choral Evensong ( Songmen )", "Wood in E">>

ListWithoutBanner ==
  <<"1200 Eucharist (Songmen)",
    "TUESDAY 2 SEPTEMBER",
    "0800 Morning Prayer", "Psalm 1",
    "5 Evensong (Songmen)",
    "1730 Evensong (Songmen)", "Hymns 1, 2">>

Documents == <<ListToFirstSeptember, ListToEndOfAugust, ListWithoutBanner>>

\* the links the page may carry: the href and the text of an <a>
Catalogue ==
  {[href |-> "/a.pdf", text |-> "Music List 31 August to 1 September"],
   [href |-> "/b.pdf", text |-> "Music List 24 August to 31 August"],
   [href |-> "https://leicestercathedral.org/c.pdf", text |-> "Services to 2 September"],
   [href |-> "/d.pdf", text |-> "Music List 7 September to 14 September"]}

\* what fetch(url) finds: the index of a document, 0 for a response that is not ok
DocumentAt(url) ==
  CASE url = "https://leicestercathedral.org/a.pdf" -> 1
    [] url = "https://leicestercathedral.org/b.pdf" -> 2
    [] url = "https://leicestercathedral.org/c.pdf" -> 3
    [] OTHER -> 0

\* text.match(/to\s+(\d{1,2})\s+(\w+)/i): <<$1, $2>> of the first match, or << >>
ToDayMonthMatch(text) ==
  LET g(i) == i + 2 + Run(text, i + 2, SpaceChars)
  IN
  LET ok(i, n) == /\ MatchAtCI(text, i, "to")
                  /\ Ch(text, i + 2) \in SpaceChars
                  /\ AllIn(text, g(i), g(i) + n - 1, DigitChars)
                  /\ Ch(text, g(i) + n) \in SpaceChars
                  /\ Ch(text, g(i) + n + Run(text, g(i) + n, SpaceChars)) \in WordChars
  IN
  With({i \in 1..Len(text) : ok(i, 2) \/ ok(i, 1)}, LAMBDA is :
     IF is = {} THEN << >>
     ELSE With(CHOOSE x \in is : \A o \in is : x <= o, LAMBDA i :
          With(IF ok(i, 2) THEN 2 ELSE 1, LAMBDA n :
          With(g(i) + n + Run(text, g(i) + n, SpaceChars), LAMBDA w :
             <<SubSeq(text, g(i), g(i) + n - 1),
               SubSeq(text, w, w + Run(text, w, WordChars) - 1)>>))))

\* results with one more entry, put where a stable sort by endDate,
\* latest first, leaves it
RECURSIVE InsertLatestFirst(_, _)
InsertLatestFirst(entry, results) ==
  IF results = << >> \/ Head(results).endDate < entry.endDate
  THEN <<entry>> \o results
  ELSE <<Head(results)>> \o InsertLatestFirst(entry, Tail(results))

\* the callback of $('a[href*=".pdf"]').each over the links from k on
RECURSIVE DiscoverFrom(_, _, _, _)
DiscoverFrom(page, k, results, currentYear) ==
  IF k > Len(page) THEN results
  ELSE With(page[k].href, LAMBDA href :
       With(
                  IF MatchAt(href, 1, "http") THEN href
                  ELSE "https://leicestercathedral.org" \o href,
         LAMBDA url :
       With({results[j].url : j \in DOMAIN results}, LAMBDA seen :
       With(ToDayMonthMatch(Trim(page[k].text)), LAMBDA match :
       With({m \in DOMAIN months : match # << >> /\ months[m] = ToLower(match[2])}, LAMBDA known :
          IF url \notin seen /\ known # {}
          THEN DiscoverFrom(page, k + 1,
                 Append(results,
                        [url |-> url,
                         endDate |-> MidnightUTC(currentYear, (CHOOSE m \in known : TRUE) - 1,
                                                 ParseInt(match[1]))]),
                 currentYear)
          ELSE DiscoverFrom(page, k + 1, results, currentYear))))))

RECURSIVE SortLatestFirst(_)
SortLatestFirst(results) ==
  IF results = << >> THEN << >>
  ELSE InsertLatestFirst(results[Len(results)], SortLatestFirst(SubSeq(results, 1, Len(results) - 1)))

\* the links in the order of the page
DiscoverInPageOrder(page, currentYear) == DiscoverFrom(page, 1, << >>, currentYear)

\* discoverLatestPDFs: { url, endDate } of the links, latest endDate first
discoverLatestPDFs(page, currentYear) ==
  SortLatestFirst(DiscoverFrom(page, 1, << >>, currentYear))

\* ------------------------------------------------------------------------
\* hasSongmen, dedupeServices, the order of services, refreshData
\* ------------------------------------------------------------------------

\* any choir at all qualifies
HasChoir(choirText) == choirText # ""

\* /\bsongmen\b/i.test(choirText)
hasSongmen(choirText) ==
  \E i \in 1..Len(choirText) :
    MatchAtCI(choirText, i, "songmen") /\ WordBoundary(choirText, i)
      /\ WordBoundary(choirText, i + 7)

\* Number(s) of a string of digits
Number(s) == IF s = "" THEN 0 ELSE ParseInt(s)

\* new Date(service.date) after setUTCHours(hour, minute, 0, 0), where
\* [hour, minute] = (service.time || '00:00').split(':').map(Number); new
\* Date(null) is the epoch
ServiceDateTime(service) ==
  With(IF service.time = NULL THEN "00:00" ELSE service.time, LAMBDA time :
  With(IndexOf(time, ":"), LAMBDA c :
     (IF service.date = None THEN 0 ELSE DateStr(Val(service.date)) * 1440)
       + Number(Upto(time, c - 1)) * 60 + Number(From(time, c + 1))))

\* a list sorted by ServiceDateTime with one more record, put where a stable
\* sort leaves it
RECURSIVE InsertByDateTime(_, _)
InsertByDateTime(service, sorted) ==
  IF sorted = << >> \/ ServiceDateTime(service) < ServiceDateTime(Head(sorted))
  THEN <<service>> \o sorted
  ELSE <<Head(sorted)>> \o InsertByDateTime(service, Tail(sorted))

\* services.sort((a, b) => ad - bd)
RECURSIVE SortByDateTime(_)
SortByDateTime(services) ==
  IF services = << >> THEN << >>
  ELSE InsertByDateTime(services[Len(services)],
                        SortByDateTime(SubSeq(services, 1, Len(services) - 1)))

\* the key of a record without the trim of its title and choir
DedupeKeyUntrimmed(svc) ==
  ISODate(Val(svc.date)) \o "|" \o svc.time \o "|" \o svc.service \o "|" \o svc.choir

\* the key dedupeServices gives a record
DedupeKey(svc) ==
  ISODate(Val(svc.date)) \o "|" \o svc.time \o "|" \o Trim(svc.service) \o "|" \o Trim(svc.choir)

\* the values of the Map after the records from k on, in insertion order
RECURSIVE DedupeFrom(_, _, _)
DedupeFrom(services, k, kept) ==
  IF k > Len(services) THEN kept
  ELSE With(services[k], LAMBDA svc :
          IF svc.date = None \/ svc.time = NULL
          THEN DedupeFrom(services, k + 1, kept)
          ELSE IF \E j \in DOMAIN kept : DedupeKey(kept[j]) = DedupeKey(svc)
          THEN DedupeFrom(services, k + 1, kept)
          ELSE DedupeFrom(services, k + 1, Append(kept, svc)))

\* every record kept
KeepAll(services) == services

dedupeServices(services) == DedupeFrom(services, 1, << >>)

\* the years new Date().getFullYear() can give while the model runs
ClockYears == {2025, 2026}

\* parsePDFBuffer of every document, tabulated once
ParsedDocuments ==
  [y \in ClockYears |-> [d \in DOMAIN Documents |-> parsePDFBuffer(Documents[d], y)]]

\* parsePDF: the parse of the document at pdfUrl, or the error it throws
parsePDF(pdfUrl, yearNow) ==
  IF DocumentAt(pdfUrl) = 0
  THEN [error |-> Some("Failed to parse PDF (" \o pdfUrl
                         \o "): HTTP error fetching PDF: 404 Not Found")]
  ELSE [error |-> None,
        services |-> ParsedDocuments[yearNow][DocumentAt(pdfUrl)].services,
        endDate |-> ParsedDocuments[yearNow][DocumentAt(pdfUrl)].endDate]

\* the loop over discovered.slice(0, Math.max(1, MAX_PDFS)) from entry k on;
\* acc is [allServices, endDates, pdfUrls, error], and a throw ends the loop
RECURSIVE ParseEntries(_, _, _, _)
ParseEntries(entries, k, acc, yearNow) ==
  IF k > Len(entries) THEN acc
  ELSE With(parsePDF(entries[k].url, yearNow), LAMBDA parsed :
          IF parsed.error # None THEN [acc EXCEPT !.error = parsed.error]
          ELSE ParseEntries(entries, k + 1,
                 [allServices |-> acc.allServices \o parsed.services,
                  endDates |-> Append(acc.endDates,
                                      IF parsed.endDate # None THEN Val(parsed.endDate)
                                      ELSE entries[k].endDate),
                  pdfUrls |-> Append(acc.pdfUrls, entries[k].url),
                  error |-> None],
                 yearNow))

\* Math.min(...endDates)
MinOf(endDates) ==
  CHOOSE d \in {endDates[j] : j \in DOMAIN endDates} :
    \A j \in DOMAIN endDates : d <= endDates[j]

\* Math.max(...endDates)
MaxOf(endDates) ==
  CHOOSE d \in {endDates[j] : j \in DOMAIN endDates} :
    \A j \in DOMAIN endDates : endDates[j] <= d

\* the isStale of refreshData with a comparison that is not strict
IsStaleFrom(finalEndDate, now) ==
  IF finalEndDate = None THEN None ELSE Some(now >= Val(finalEndDate))

\* finalEndDate && now > finalEndDate: null when there is no finalEndDate
IsStale(finalEndDate, now) ==
  IF finalEndDate = None THEN None ELSE Some(now > Val(finalEndDate))

\* the truth of the value of cachedData.isStale
Truthy(flag) == flag # None /\ Val(flag)

\* the snapshot a failed refresh leaves with every field but its error cleared
FailedRefreshCleared(old, message) ==
  [services |-> << >>, sourceUrl |-> "", pdfUrls |-> << >>, endDate |-> None,
   lastFetch |-> None, isStale |-> Some(FALSE), error |-> Some(message)]

\* a failed refresh that leaves no trace
FailedRefreshSilent(old, message) == old

\* the catch of refreshData: cachedData.error = error.message
FailedRefresh(old, message) == [old EXCEPT !.error = Some(message)]

\* the snapshot refreshData installs once every document is parsed
InstallSnapshot(allServices, endDates, pdfUrls, now) ==
  With(dedupeServices(allServices), LAMBDA services :
  With(IF endDates # << >> THEN Some(MaxOf(endDates)) ELSE None, LAMBDA finalEndDate :
     [services |-> SortByDateTime(SelectSeq(services, LAMBDA service : hasSongmen(service.choir))),
      sourceUrl |-> MUSIC_LIST_URL,
      pdfUrls |-> pdfUrls,
      endDate |-> finalEndDate,
      lastFetch |-> Some(now),
      isStale |-> IsStale(finalEndDate, now),
      error |-> None]))

\* cachedData after refreshData with MUSIC_LIST_PDF_PATH unset: old is the
\* snapshot before, page the links fetched, now is getMockDate() || new
\* Date(), wallNow is new Date()
refreshData(old, page, now, wallNow) ==
  With(discoverLatestPDFs(page, FullYear(wallNow)), LAMBDA discovered :
  With(IF MAX_PDFS > 1 THEN MAX_PDFS ELSE 1, LAMBDA m :
  With(SubSeq(discovered, 1, IF Len(discovered) < m THEN Len(discovered) ELSE m), LAMBDA entries :
  With(
             ParseEntries(entries, 1,
                          [allServices |-> << >>, endDates |-> << >>,
                           pdfUrls |-> << >>, error |-> None],
                          FullYear(wallNow)),
    LAMBDA acc :
     IF discovered = << >>
     THEN FailedRefresh(old, "No PDF link found on the music list page")
     ELSE IF acc.error # None
     THEN FailedRefresh(old, Val(acc.error))
     ELSE InstallSnapshot(acc.allServices, acc.endDates, acc.pdfUrls, now)))))

\* ------------------------------------------------------------------------
\* The selections: getCurrentServices and the queries built on it
\* ------------------------------------------------------------------------

\* getMockDate() || new Date()
Now == IF mockDate # None THEN Val(mockDate) ELSE clock

\* now with no grace at all
NoGrace(now) == now

\* now minus the grace of ten minutes
TenMinutesAgo(now) == now - 10

\* the filter and the sort of getCurrentServices
UpcomingServices ==
  SortByDateTime(SelectSeq(cachedData.services,
    LAMBDA service : /\ service.date # None /\ service.time # NULL
                     /\ ServiceDateTime(service) >= TenMinutesAgo(Now)))

\* getCurrentServices without its first line
CurrentServicesOfStale == UpcomingServices

getCurrentServices ==
  IF Truthy(cachedData.isStale) THEN << >> ELSE UpcomingServices

\* the last of the current services, where getNextService takes the first
getLastService ==
  IF Len(getCurrentServices) > 0 THEN Some(getCurrentServices[Len(getCurrentServices)])
  ELSE None

getNextService ==
  IF Len(getCurrentServices) > 0 THEN Some(getCurrentServices[1]) ELSE None

\* startOfWeek and endOfWeek of getCurrentWeekServices; endOfWeek is
\* 23:59:59.999, which no instant of whole minutes lies beyond 23:59
StartOfWeek(now) == (DateStr(now) - UTCDay(now) + 1) * 1440
EndOfWeek(now) == StartOfWeek(now) + 6 * 1440 + 1439

getCurrentWeekServices ==
  SelectSeq(getCurrentServices,
    LAMBDA service : /\ Val(service.date) >= StartOfWeek(Now)
                     /\ Val(service.date) <= EndOfWeek(Now))

getTomorrowServices ==
  With((DateStr(Now) + 1) * 1440, LAMBDA tomorrowStart :
  With(tomorrowStart + 1439, LAMBDA tomorrowEnd :
     SelectSeq(getCurrentServices,
       LAMBDA svc : Val(svc.date) >= tomorrowStart /\ Val(svc.date) <= tomorrowEnd)))

getServicesOnDate(dateStr) ==
  SelectSeq(getCurrentServices, LAMBDA svc : ISODate(Val(svc.date)) = dateStr)

\* ------------------------------------------------------------------------
\* formatServiceHuman, getStaleMessage and the routes
\* ------------------------------------------------------------------------

\* parts.join(sep)
RECURSIVE Join(_, _)
Join(parts, sep) ==
  IF parts = << >> THEN ""
  ELSE IF Len(parts) = 1 THEN parts[1]
  ELSE parts[1] \o sep \o Join(Tail(parts), sep)

\* s.replace(/\band\b/gi, '&') from position i on
AndAt(s, i) ==
  IF MatchAtCI(s, i, "and") /\ WordBoundary(s, i) /\ WordBoundary(s, i + 3)
  THEN <<i + 3, "&">>
  ELSE << >>

ReplaceAnd(s) == ReplaceAll(s, AndAt)

\* the lists formatServiceHuman prints: the settings canonicalized, the
\* anthems, psalms and hymns normalized once more
HumanPieces(service) ==
  [settings |-> [k \in DOMAIN service.pieces.settings |->
                   canonicalizeSettingPiece(service.pieces.settings[k], service.service)],
   anthems |-> [k \in DOMAIN service.pieces.anthems |->
                   normalizePieceTitle(service.pieces.anthems[k])],
   psalms |-> [k \in DOMAIN service.pieces.psalms |->
                   normalizePieceTitle(service.pieces.psalms[k])],
   hymns |-> [k \in DOMAIN service.pieces.hymns |->
                   normalizePieceTitle(service.pieces.hymns[k])]]

formatServiceHuman(service) ==
  With(ISODate(Val(service.date)), LAMBDA dateStr :
  With(ReplaceAnd(service.choir), LAMBDA choir :
  With(HumanPieces(service), LAMBDA p :
  With(
               (IF Len(p.settings) > 0 THEN <<"Settings: " \o Join(p.settings, "; ")>> ELSE << >>)
            \o (IF Len(p.anthems) > 0 THEN <<"Anthems: " \o Join(p.anthems, "; ")>> ELSE << >>)
            \o (IF Len(p.psalms) > 0 THEN <<"Psalms: " \o Join(p.psalms, "; ")>> ELSE << >>)
            \o (IF Len(p.hymns) > 0 THEN <<"Hymns: " \o Join(p.hymns, "; ")>> ELSE << >>),
    LAMBDA lines :
  With(Join(lines, "\n"), LAMBDA details :
     dateStr \o " " \o service.time \o "  " \o service.service \o "\nChoir: " \o choir
       \o (IF details # "" THEN "\n" \o details ELSE ""))))))

\* the dated records of the documents, and formatServiceHuman of each,
\* tabulated once
DocumentServices ==
  UNION {{ParsedDocuments[y][d].services[k] : k \in DOMAIN ParsedDocuments[y][d].services} :
           y \in ClockYears, d \in DOMAIN Documents}

HumanText ==
  [service \in {x \in DocumentServices : x.date # None /\ x.time # NULL} |->
     formatServiceHuman(service)]

getStaleMessage ==
  IF cachedData.endDate = None
  THEN "STALE: Music list unavailable " \o EMDASH \o " no newer list published."
  ELSE "STALE: Music list ended " \o ISODate(Val(cachedData.endDate)) \o " " \o EMDASH
         \o " no newer list published."

\* a response: the three headers every /songmen route sets, the records the
\* handler selected, and the text it returns
Response(route, selected, body) ==
  [route |-> route,
   xSourceEndDate |-> IF cachedData.endDate # None THEN ISODate(Val(cachedData.endDate)) ELSE "",
   xLastFetch |-> IF cachedData.lastFetch # None THEN ISOInstant(Val(cachedData.lastFetch)) ELSE "",
   xStale |-> IF Truthy(cachedData.isStale) THEN "true" ELSE "false",
   selected |-> selected,
   body |-> body]

\* weekServices.map(formatServiceHuman).join('\n\n'), '' for no record
HumanList(services) ==
  Join([k \in DOMAIN services |-> HumanText[services[k]]], "\n\n")

\* the text /songmen/raw prints for the records
RawList(services) ==
  Join([k \in DOMAIN services |->
          Join(<<ISODate(Val(services[k].date)) \o " " \o services[k].time \o " "
                   \o services[k].service \o " (" \o services[k].choir \o ")">>
               \o services[k].rawLines \o <<"">>, "\n")],
       "\n")

\* /\d{4}-\d{2}-\d{2}/.test(s)
HasISODate(s) ==
  \E i \in 1..Len(s) :
    /\ AllIn(s, i, i + 3, DigitChars) /\ Ch(s, i + 4) = "-"
    /\ AllIn(s, i + 5, i + 6, DigitChars) /\ Ch(s, i + 7) = "-"
    /\ AllIn(s, i + 8, i + 9, DigitChars) /\ i + 9 <= Len(s)

\* ------------------------------------------------------------------------
\* The server: start(), the refresh timer, the page, the clock, the routes
\* ------------------------------------------------------------------------

\* how many links the page comes to carry
MaxLinks == 2
\* how many periods of the refresh timer the clock runs through
MaxPeriods == 4

\* the clock starts on Sunday 31 August 2025 at 00:00Z
FirstInstant == MidnightUTC(2025, 7, 31)
LastInstant == FirstInstant + MaxPeriods * 720

\* the instants the clock shows: those of the timer, and a minute past noon,
\* 17:39, 17:40 and 17:41 of every day
Moments ==
  {FirstInstant + k * 720 : k \in 0..MaxPeriods}
    \cup {t \in {FirstInstant + d * 1440 + m : d \in 0..MaxPeriods, m \in {721, 1059, 1060, 1061}} :
            t <= LastInstant}

\* MOCK_DATE unset, or 2025-09-02 (noon UTC)
MockDates == {None, Some(NoonUTC(2025, 8, 2))}

\* request.query.date of /songmen/day: absent, a date, or no date
DayQueries == {None, Some("2025-09-01"), Some("today")}

InitialCachedData ==
  [services |-> << >>, sourceUrl |-> "", pdfUrls |-> << >>, endDate |-> None,
   lastFetch |-> None, isStale |-> Some(FALSE), error |-> None]

\* the variables of the pure-function specifications, at rest
NoFunction == ps = None /\ arg = "" /\ res = << >>

Init ==
  /\ site \in {<< >>} \cup {<<l>> : l \in Catalogue}
  /\ mockDate \in MockDates
  /\ clock = FirstInstant
  /\ due = None
  /\ cachedData = InitialCachedData
  /\ reply = None
  /\ NoFunction

\* start(): the first refreshData, the timer of 12 hours, listen
Start ==
  /\ due = None
  /\ cachedData' = refreshData(cachedData, site, Now, clock)
  /\ due' = Some(clock + 720)
  /\ UNCHANGED <<site, mockDate, clock, reply, ps, arg, res>>

\* the timer fires: refreshData
TimerRefresh ==
  /\ due # None /\ clock = Val(due)
  /\ cachedData' = refreshData(cachedData, site, Now, clock)
  /\ due' = Some(Val(due) + 720)
  /\ UNCHANGED <<site, mockDate, clock, reply, ps, arg, res>>

\* time passes, never beyond the instant the timer is due
Tick(t) ==
  /\ due # None /\ clock < t /\ t <= Val(due)
  /\ clock' = t
  /\ UNCHANGED <<site, mockDate, due, cachedData, reply, ps, arg, res>>

\* the cathedral puts one more link on the page
Publish(l) ==
  /\ Len(site) < MaxLinks
  /\ site' = <<l>> \o site
  /\ UNCHANGED <<mockDate, clock, due, cachedData, reply, ps, arg, res>>

\* GET /songmen/next
QueryNext ==
  /\ due # None
  /\ reply' = IF Truthy(cachedData.isStale) \/ cachedData.error # None
              THEN Some(Response("next", << >>, getStaleMessage))
              ELSE IF getNextService = None
              THEN Some(Response("next", << >>, getStaleMessage))
              ELSE Some(Response("next", getNextService, HumanText[Val(getNextService)]))
  /\ UNCHANGED <<site, mockDate, clock, due, cachedData, ps, arg, res>>

\* GET /songmen/week
QueryWeek ==
  /\ due # None
  /\ reply' = IF Truthy(cachedData.isStale) \/ cachedData.error # None
              THEN Some(Response("week", << >>, getStaleMessage))
              ELSE Some(Response("week", getCurrentWeekServices,
                                 HumanList(getCurrentWeekServices)))
  /\ UNCHANGED <<site, mockDate, clock, due, cachedData, ps, arg, res>>

\* GET /songmen/raw
QueryRaw ==
  /\ due # None
  /\ reply' = Some(Response("raw", getCurrentServices, RawList(getCurrentServices)))
  /\ UNCHANGED <<site, mockDate, clock, due, cachedData, ps, arg, res>>

\* GET /songmen/tomorrow
QueryTomorrow ==
  /\ due # None
  /\ reply' = IF Truthy(cachedData.isStale) \/ cachedData.error # None
              THEN Some(Response("tomorrow", << >>, getStaleMessage))
              ELSE Some(Response("tomorrow", getTomorrowServices,
                                 HumanList(getTomorrowServices)))
  /\ UNCHANGED <<site, mockDate, clock, due, cachedData, ps, arg, res>>

\* GET /songmen/day, with or without ?date=
QueryDay(date) ==
  /\ due # None
  /\ With(
                          IF date # None /\ HasISODate(Val(date)) THEN Val(date)
                          ELSE ISODate(Now),
       LAMBDA targetDateStr :
        reply' = IF Truthy(cachedData.isStale) \/ cachedData.error # None
                 THEN Some(Response("day", << >>, getStaleMessage))
                 ELSE Some(Response("day", getServicesOnDate(targetDateStr),
                                    HumanList(getServicesOnDate(targetDateStr)))))
  /\ UNCHANGED <<site, mockDate, clock, due, cachedData, ps, arg, res>>

\* JSON.stringify of a list of strings that need no escape
JsonList(list) ==
  "[" \o Join([k \in DOMAIN list |-> "\"" \o list[k] \o "\""], ",") \o "]"

\* the source object of the body of /json
JsonSource ==
  "{\"music_list_url\":\"" \o cachedData.sourceUrl \o "\",\"end_date\":"
    \o (IF cachedData.endDate # None
        THEN "\"" \o ISODate(Val(cachedData.endDate)) \o "\"" ELSE "null")
    \o ",\"fetched_at\":"
    \o (IF cachedData.lastFetch # None
        THEN "\"" \o ISOInstant(Val(cachedData.lastFetch)) \o "\"" ELSE "null")
    \o "}"

\* the body of /json when there is nothing to show
JsonOfNothing ==
  "{\"date\":null,\"time\":null,\"service\":null,\"choir\":null,\"pieces\":null,\"source\":"
    \o JsonSource \o ",\"stale\":true}"

\* the body of /json for the next service
JsonOfService(nextService) ==
  With(HumanPieces(nextService), LAMBDA p :
     "{\"date\":\"" \o ISODate(Val(nextService.date)) \o "\",\"time\":\"" \o nextService.time
       \o "\",\"service\":\"" \o nextService.service \o "\",\"choir\":\"" \o nextService.choir
       \o "\",\"pieces\":{\"settings\":" \o JsonList(p.settings)
       \o ",\"anthems\":" \o JsonList(p.anthems)
       \o ",\"psalms\":" \o JsonList(p.psalms)
       \o ",\"hymns\":" \o JsonList(p.hymns)
       \o ",\"organ\":" \o JsonList(nextService.pieces.organ)
       \o "},\"source\":" \o JsonSource \o ",\"stale\":false}")

\* GET /json
QueryJson ==
  /\ due # None
  /\ reply' = With(getNextService, LAMBDA nextService :
                 IF nextService = None \/ Truthy(cachedData.isStale) \/ cachedData.error # None
                 THEN Some(Response("json", << >>, JsonOfNothing))
                 ELSE Some(Response("json", nextService, JsonOfService(Val(nextService)))))
  /\ UNCHANGED <<site, mockDate, clock, due, cachedData, ps, arg, res>>

Next ==
  \/ Start
  \/ TimerRefresh
  \/ \E t \in Moments : Tick(t)
  \/ \E l \in Catalogue : Publish(l)
  \/ QueryNext
  \/ QueryWeek
  \/ QueryRaw
  \/ QueryTomorrow
  \/ \E date \in DayQueries : QueryDay(date)
  \/ QueryJson

Spec == Init /\ [][Next]_vars

\* ------------------------------------------------------------------------
\* Properties of the merged schedule and of the refresh
\* ------------------------------------------------------------------------

\* the key the records are to be told apart by: calendar date, time,
\* trimmed title, trimmed choir
ScheduleKey(svc) ==
  <<ISODate(Val(svc.date)), svc.time, Trim(svc.service), Trim(svc.choir)>>

\* how many records of the merged schedule have the key of r
CountOfKey(r) ==
  Cardinality({i \in DOMAIN cachedData.services :
                 ScheduleKey(cachedData.services[i]) = ScheduleKey(r)})

\* the qualifying records the document behind the k-th parsed link holds
RecordsBehind(k) ==
  With(ParsedDocuments[FullYear(clock)][DocumentAt(cachedData.pdfUrls[k])].services,
       LAMBDA parsed :
         {parsed[j] : j \in {x \in DOMAIN parsed :
                               /\ parsed[x].date # None /\ parsed[x].time # NULL
                               /\ hasSongmen(parsed[x].choir)}})

\* C1: no two records of the merged schedule share the key (calendar date,
\* time, trimmed title, trimmed choir), and a record that two of the parsed
\* documents both contain is in the merged schedule exactly once
C1_NoTwoRecordsShareKey ==
  /\ \A i, j \in DOMAIN cachedData.services :
       ScheduleKey(cachedData.services[i]) = ScheduleKey(cachedData.services[j]) => i = j
  /\ \A k1, k2 \in DOMAIN cachedData.pdfUrls :
       k1 # k2 =>
         \A r1 \in RecordsBehind(k1), r2 \in RecordsBehind(k2) :
           ScheduleKey(r1) = ScheduleKey(r2) => CountOfKey(r1) = 1

\* two documents were merged that hold the same record, and one that differs
\* only in the blanks around its choir
C1_Witness ==
  /\ Len(cachedData.pdfUrls) >= 2
  /\ \E r1 \in RecordsBehind(1), r2 \in RecordsBehind(2) : r1 = r2 /\ CountOfKey(r1) = 1
  /\ \E r1 \in RecordsBehind(1), r2 \in RecordsBehind(2) :
       r1.choir # r2.choir /\ ScheduleKey(r1) = ScheduleKey(r2) /\ CountOfKey(r1) = 1

\* a step of start() or of the timer, the two that set due, in which
\* refreshData installed a new snapshot
RefreshSucceeded == due' # due /\ cachedData'.error = None

\* C2: when a refresh succeeds, the stale flag it installs is true exactly
\* when the merged validity end date exists and the now of the refresh (the
\* mock clock if configured, else the wall clock) is strictly after it; with
\* no end date the snapshot is never stale
C2_StaleFlagOfRefresh ==
  [][RefreshSucceeded =>
       /\ cachedData'.lastFetch = Some(Now)
       /\ Truthy(cachedData'.isStale) <=>
            (cachedData'.endDate # None /\ Now > Val(cachedData'.endDate))
       /\ cachedData'.endDate = None => ~Truthy(cachedData'.isStale)]_vars

\* a refresh at the very instant of the end date installed a snapshot
C2_Witness ==
  /\ cachedData.error = None /\ cachedData.lastFetch # None
  /\ cachedData.endDate = cachedData.lastFetch
  /\ cachedData.isStale = Some(FALSE)

\* C3: whenever the stale flag is true every selection returns no record:
\* getCurrentServices is empty, getNextService is null, the week, tomorrow
\* and day selections are empty, and a response that says it is stale
\* carries no record, /songmen/raw included
C3_StaleSelectsNothing ==
  /\ Truthy(cachedData.isStale) =>
       /\ getCurrentServices = << >>
       /\ getNextService = None
       /\ getCurrentWeekServices = << >>
       /\ getTomorrowServices = << >>
       /\ \A day \in 0..MaxPeriods : getServicesOnDate(ISODate(FirstInstant + day * 1440)) = << >>
  /\ (reply # None /\ Val(reply).xStale = "true") => Val(reply).selected = << >>

\* /songmen/raw answered from a stale snapshot that holds a record yet to come
C3_Witness ==
  /\ Truthy(cachedData.isStale)
  /\ UpcomingServices # << >>
  /\ reply # None /\ Val(reply).route = "raw" /\ Val(reply).xStale = "true"

\* C4: at every instant a query is served the schedule is treated as stale
\* exactly when the validity end date exists and the current instant exceeds
\* it: once the clock has passed the end date /songmen/next answers with the
\* STALE banner and selects no record, without a further refresh
C4_StaleOnceClockPassesEndDate ==
  [][(QueryNext /\ cachedData.endDate # None /\ Now > Val(cachedData.endDate)) =>
       (Val(reply').body = getStaleMessage /\ Val(reply').selected = << >>)]_vars

\* ------------------------------------------------------------------------
\* Properties of the selections
\* ------------------------------------------------------------------------

\* the records a list holds
Records(list) == {list[k] : k \in DOMAIN list}

\* C5: on a snapshot that is not stale, a record with a date and a time is
\* among getCurrentServices exactly when its timestamp is at or after now
\* minus 10 minutes: one that began 9 minutes ago is selected, one that began
\* 11 minutes ago is not
C5_GraceOfTenMinutes ==
  ~Truthy(cachedData.isStale) =>
    \A svc \in Records(cachedData.services) :
      (svc.date # None /\ svc.time # NULL) =>
        /\ svc \in Records(getCurrentServices) <=> ServiceDateTime(svc) >= Now - 10
        /\ ServiceDateTime(svc) = Now - 9 => svc \in Records(getCurrentServices)
        /\ ServiceDateTime(svc) = Now - 11 => svc \notin Records(getCurrentServices)

\* a service that began 9 minutes ago is still among the current ones
C5_Witness ==
  /\ ~Truthy(cachedData.isStale)
  /\ \E svc \in Records(cachedData.services) :
       ServiceDateTime(svc) = Now - 9 /\ svc \in Records(getCurrentServices)

\* C6: getCurrentServices is sorted ascending by timestamp and
\* getNextService is its first element, so no current service is earlier
\* than the next one; getNextService is null exactly when the list is empty
C6_NextIsEarliest ==
  /\ \A i, j \in DOMAIN getCurrentServices :
       i <= j => ServiceDateTime(getCurrentServices[i]) <= ServiceDateTime(getCurrentServices[j])
  /\ getNextService = None <=> getCurrentServices = << >>
  /\ getNextService # None =>
       /\ Val(getNextService) = getCurrentServices[1]
       /\ \A svc \in Records(getCurrentServices) :
            ServiceDateTime(Val(getNextService)) <= ServiceDateTime(svc)

\* several services at different times are current
C6_Witness ==
  /\ Len(getCurrentServices) >= 2
  /\ ServiceDateTime(getCurrentServices[1])
       < ServiceDateTime(getCurrentServices[Len(getCurrentServices)])
  /\ getNextService = Some(getCurrentServices[1])

\* the calendar day of the Monday of the Monday-to-Sunday week an instant is in
MondayOf(instant) == DateStr(instant) - ((UTCDay(instant) + 6) % 7)

\* C7: for every now, a Sunday included, getCurrentWeekServices returns
\* exactly the current services whose date is in the Monday-to-Sunday week
\* that contains now
C7_WeekContainsNow ==
  due # None =>
    getCurrentWeekServices =
      SelectSeq(getCurrentServices,
        LAMBDA svc : /\ DateStr(Val(svc.date)) >= MondayOf(Now)
                     /\ DateStr(Val(svc.date)) <= MondayOf(Now) + 6)

\* ------------------------------------------------------------------------
\* parseTime on its own: every token of four digits
\* ------------------------------------------------------------------------

\* the first digit of the tokens runs up to HourTens, the third up to MinuteTens
HourTens == 2
MinuteTens == 5

TimeTokens ==
  {DigitChar(a) \o DigitChar(b) \o DigitChar(c) \o DigitChar(d) :
     a \in 0..HourTens, b \in 0..9, c \in 0..MinuteTens, d \in 0..9}

\* the server before start(), which the functions on their own never touch
ServerAtRest ==
  /\ site = << >> /\ mockDate = None /\ clock = FirstInstant /\ due = None
  /\ cachedData = InitialCachedData /\ reply = None

InitTime == ServerAtRest /\ ps = None /\ arg \in TimeTokens /\ res = << >>

ApplyParseTime ==
  /\ res = << >>
  /\ res' = <<parseTime(arg)>>
  /\ UNCHANGED <<site, mockDate, clock, due, cachedData, reply, ps, arg>>

NextTime == ApplyParseTime

SpecTime == InitTime /\ [][NextTime]_vars

\* C8: for every string HHMM of four digits with 0 <= HH <= 23 and
\* 0 <= MM <= 59, parseTime returns "HH:MM", zero-padded
C8_ClockTimeOfFourDigits ==
  (/\ res # << >>
   /\ Len(arg) = 4 /\ AllIn(arg, 1, 4, DigitChars)
   /\ ParseInt(SubSeq(arg, 1, 2)) <= 23 /\ ParseInt(SubSeq(arg, 3, 4)) <= 59)
    => res[1] = SubSeq(arg, 1, 2) \o ":" \o SubSeq(arg, 3, 4)

\* five past nine in the morning, where both fields need their zero
C8_Witness == arg = "0905" /\ res = <<"09:05">>

\* ------------------------------------------------------------------------
\* normalizePieceTitle on its own, applied and applied again
\* ------------------------------------------------------------------------

\* the fragments the titles are put together from, at most MaxTitleParts each
TitleParts ==
  {"Mass for", "Five Voices", "Byrd", "Psalm 110", "Crux fidelis", "-", "Walmisley:"}
MaxTitleParts == 3

Titles ==
  {Join(parts, " ") : parts \in UNION {[1..n -> TitleParts] : n \in 1..MaxTitleParts}}

InitTitle == ServerAtRest /\ ps = None /\ arg \in Titles /\ res = << >>

\* the parser normalizes the text of a piece and stores it
NormalizeTitle ==
  /\ res = << >>
  /\ res' = <<normalizePieceTitle(arg)>>
  /\ UNCHANGED <<site, mockDate, clock, due, cachedData, reply, ps, arg>>

\* formatServiceHuman normalizes the stored string once more
NormalizeStoredTitle ==
  /\ Len(res) = 1
  /\ res' = Append(res, normalizePieceTitle(res[1]))
  /\ UNCHANGED <<site, mockDate, clock, due, cachedData, reply, ps, arg>>

NextTitle == NormalizeTitle \/ NormalizeStoredTitle

SpecTitle == InitTitle /\ [][NextTitle]_vars

\* C10: normalizePieceTitle is idempotent: for every title t,
\* normalizePieceTitle(normalizePieceTitle(t)) = normalizePieceTitle(t), so
\* normalizing a stored string once more never changes it
C10_NormalizeIsIdempotent == Len(res) = 2 => res[2] = res[1]

\* ------------------------------------------------------------------------
\* The scan of parsePDFBuffer line by line, and the lists formatServiceHuman
\* prints for the records it yields
\* ------------------------------------------------------------------------

\* the lines of one Evensong
EvensongLines ==
  <<"1730 Choral Evensong (Senior Girls & Songmen)",
    "Walmisley in D minor",
    "Crux fidelis MacDonald",
    "Psalm 110 Garrett , 150 Stanford",
    "Hymns 707, 421, 806">>

\* the lines the other documents are put together from, at most MaxLines each
LinePool ==
  {EvensongLines[k] : k \in DOMAIN EvensongLines}
    \cup {"Music List", "SUNDAY 31 AUGUST TRINITY 11",
          "Crux fidelis MacDonald Psalms 110 Garrett , 150 Stanford",
          "1030 Sung Eucharist (Songmen) Byrd Psalm 23 Goss Preacher: The Dean"}
MaxLines == 2

\* a list with a day header between a service line and a piece line
HeaderBetweenLines ==
  <<"SUNDAY 31 AUGUST TRINITY 11",
    "1730 Choral Evensong (Songmen)", "Stanford in C",
    "MONDAY 1 SEPTEMBER",
    "Psalm 23 Goss",
    "1730 Evensong (Songmen)">>

\* a list with a month that is no month and a time that is no time
DefectiveLines ==
  <<"FRIDAY 5 SEPT",
    "1030 Sung Eucharist (Songmen)",
    "MONDAY 1 SEPTEMBER",
    "5 Evensong (Songmen)",
    "1730 Evensong (Songmen)", "Psalm 23 Goss">>

\* a list of the turn of the year
YearEndLines ==
  <<"Music List 28 December - 4 January 2026",
    "SUNDAY 28 DECEMBER",
    "1030 Sung Eucharist (Songmen)", "Darke in F",
    "SUNDAY 4 JANUARY",
    "1030 Sung Eucharist (Songmen)", "Byrd">>

LineLists ==
  {EvensongLines, HeaderBetweenLines, DefectiveLines, YearEndLines}
    \cup {Documents[d] : d \in DOMAIN Documents}
    \cup UNION {[1..n -> LinePool] : n \in 1..MaxLines}

InitParse == ServerAtRest /\ ps = None /\ arg \in LineLists /\ res = << >>

\* parsePDFBuffer up to its while loop
StartParse ==
  /\ ps = None
  /\ ps' = Some(ParseStart(arg, FullYear(clock)))
  /\ UNCHANGED <<site, mockDate, clock, due, cachedData, reply, arg, res>>

\* the while loop is at a line of the given kind, or, for "end", over
AtLine(kind) == ps # None /\ ~Val(ps).done /\ LineKind(Val(ps)) = kind

DayHeaderLine ==
  /\ AtLine("day")
  /\ ps' = Some(DayHeaderStep(Val(ps)))
  /\ UNCHANGED <<site, mockDate, clock, due, cachedData, reply, arg, res>>

ServiceLine ==
  /\ AtLine("service")
  /\ ps' = Some(ServiceLineStep(Val(ps)))
  /\ UNCHANGED <<site, mockDate, clock, due, cachedData, reply, arg, res>>

PieceLine ==
  /\ AtLine("piece")
  /\ ps' = Some(PieceLineStep(Val(ps)))
  /\ UNCHANGED <<site, mockDate, clock, due, cachedData, reply, arg, res>>

SkipLine ==
  /\ AtLine("skip")
  /\ ps' = Some(SkipLineStep(Val(ps)))
  /\ UNCHANGED <<site, mockDate, clock, due, cachedData, reply, arg, res>>

\* the code after the loop
EndOfLines ==
  /\ AtLine("end")
  /\ ps' = Some(FinishStep(Val(ps)))
  /\ UNCHANGED <<site, mockDate, clock, due, cachedData, reply, arg, res>>

\* formatServiceHuman's lists of every record parsed
Canonicalize ==
  /\ ps # None /\ Val(ps).done /\ res = << >>
  /\ res' = [k \in DOMAIN Val(ps).services |->
               With(Val(ps).services[k], LAMBDA svc :
               With(HumanPieces(svc), LAMBDA p :
                  [time |-> svc.time, service |-> svc.service, choir |-> svc.choir,
                   settings |-> p.settings, anthems |-> p.anthems,
                   psalms |-> p.psalms, hymns |-> p.hymns]))]
  /\ UNCHANGED <<site, mockDate, clock, due, cachedData, reply, ps, arg>>

NextParse ==
  \/ StartParse
  \/ DayHeaderLine
  \/ ServiceLine
  \/ PieceLine
  \/ SkipLine
  \/ EndOfLines
  \/ Canonicalize

SpecParse == InitParse /\ [][NextParse]_vars

\* C9: parsing the five lines of the Evensong and canonicalizing yields
\* exactly one record: time "17:30", title "Choral Evensong", choir "Senior
\* Girls & Songmen", the setting "Mag and Nunc in D minor - Walmisley", the
\* anthem "Crux fidelis - MacDonald", the psalms "Psalm 110 - Garrett" and
\* "Psalm 150 - Stanford", the hymns "Hymns 707, 421, 806" (the dashes are
\* em dashes)
C9_EvensongRecord ==
  (arg = EvensongLines /\ ps # None /\ Val(ps).done /\ res # << >>) =>
    res = <<[time |-> "17:30", service |-> "Choral Evensong",
             choir |-> "Senior Girls & Songmen",
             settings |-> <<"Mag and Nunc in D minor " \o EMDASH \o " Walmisley">>,
             anthems |-> <<"Crux fidelis " \o EMDASH \o " MacDonald">>,
             psalms |-> <<"Psalm 110 " \o EMDASH \o " Garrett",
                          "Psalm 150 " \o EMDASH \o " Stanford">>,
             hymns |-> <<"Hymns 707, 421, 806">>]>>

\* ------------------------------------------------------------------------
\* Properties of a refresh that fails
\* ------------------------------------------------------------------------

\* the links a refresh in this state goes on to parse
EntriesToParse ==
  With(discoverLatestPDFs(site, FullYear(clock)), LAMBDA discovered :
     SubSeq(discovered, 1, IF Len(discovered) < MAX_PDFS THEN Len(discovered) ELSE MAX_PDFS))

\* the document behind the link is fetched and parsed without an error
Parses(entry) == parsePDF(entry.url, FullYear(clock)).error = None

\* C11: when one document of a refresh fails to fetch or parse while at
\* least one other succeeds, the refresh still installs a schedule built
\* from the documents that succeeded, and records the failure in the error
\* state
C11_BestEffortSchedule ==
  [][(/\ due' # due
      /\ \E k \in DOMAIN EntriesToParse : Parses(EntriesToParse[k])
      /\ \E k \in DOMAIN EntriesToParse : ~Parses(EntriesToParse[k])) =>
       /\ cachedData'.lastFetch = Some(Now)
       /\ cachedData'.pdfUrls =
            [k \in DOMAIN SelectSeq(EntriesToParse, Parses) |->
               SelectSeq(EntriesToParse, Parses)[k].url]
       /\ cachedData'.error # None]_vars

\* C12: a refresh that fails leaves the previous good snapshot in place:
\* services, pdfUrls, endDate, lastFetch and isStale are after it what they
\* were before it, whatever refreshes came earlier
C12_FailedRefreshKeepsSnapshot ==
  [][(due' # due /\ cachedData'.error # None) =>
       /\ cachedData'.services = cachedData.services
       /\ cachedData'.pdfUrls = cachedData.pdfUrls
       /\ cachedData'.endDate = cachedData.endDate
       /\ cachedData'.lastFetch = cachedData.lastFetch
       /\ cachedData'.isStale = cachedData.isStale]_vars

\* a refresh has failed after one that installed records
C12_Witness ==
  /\ cachedData.error # None
  /\ cachedData.lastFetch # None /\ cachedData.services # << >>

\* C13: while the error state is set, every selection query (next, week,
\* tomorrow, day and raw) answers with no service record
C13_ErrorSelectsNothing ==
  [][(reply' # reply /\ cachedData.error # None) => Val(reply').selected = << >>]_vars

\* C14: every outcome of a refresh replaces the snapshot as a whole and
\* never changes a field of the snapshot readers see, so no snapshot has
\* fields from two refresh attempts: a refresh leaves the snapshot as it
\* was or installs one it computed in full
C14_SnapshotFromOneRefresh ==
  [][(due' # due /\ cachedData' # cachedData) =>
       (cachedData'.error = None /\ cachedData'.lastFetch = Some(Now))]_vars

\* ------------------------------------------------------------------------
\* Properties of the records a snapshot holds
\* ------------------------------------------------------------------------

\* every record the document behind the k-th parsed link holds
ParsedBehind(k) ==
  Records(ParsedDocuments[FullYear(clock)][DocumentAt(cachedData.pdfUrls[k])].services)

\* the records held in the snapshot or carried by the last response
HeldOrReturned ==
  Records(cachedData.services) \cup (IF reply = None THEN {} ELSE Records(Val(reply).selected))

\* C15: after any sequence of refreshes every service held in the snapshot,
\* and so every service a query returns, has a choir label that contains the
\* word songmen in any case, mixed formations such as "Boys and Songmen"
\* included; no service with an empty choir label is held
C15_OnlySongmenHeld ==
  \A svc \in HeldOrReturned :
    svc.choir # "" /\ Includes(ToLower(svc.choir), "songmen")

\* a mixed formation is held while a service with no choir label, parsed
\* from the same document list, is not
C15_Witness ==
  /\ \E svc \in Records(cachedData.services) : svc.choir = "Boys and Songmen"
  /\ \E k \in DOMAIN cachedData.pdfUrls :
       \E r \in ParsedBehind(k) :
         r.choir = "" /\ r.date # None /\ r.time # NULL /\ r \notin Records(cachedData.services)

\* C16: a record whose date never resolved or whose time could not be
\* parsed is dropped: no record with a null date or a null time is in the
\* merged schedule or returned by a selection query
C16_NoNullDateOrTime ==
  \A svc \in HeldOrReturned : svc.date # None /\ svc.time # NULL

\* a document was merged that holds a service line before any day header and
\* one whose time does not parse, both for the Songmen
C16_Witness ==
  /\ cachedData.services # << >>
  /\ \E k \in DOMAIN cachedData.pdfUrls :
       /\ \E r \in ParsedBehind(k) : r.date = None /\ Includes(ToLower(r.choir), "songmen")
       /\ \E r \in ParsedBehind(k) : r.time = NULL /\ Includes(ToLower(r.choir), "songmen")

\* ------------------------------------------------------------------------
\* Properties of the merged validity end date
\* ------------------------------------------------------------------------

\* the end date the document behind a link states in its banner, if any
OwnEndDate(entry) == parsePDF(entry.url, FullYear(clock)).endDate

\* the greatest of a set of instants, none for the empty set
Greatest(dates) ==
  IF dates = {} THEN None ELSE Some(CHOOSE d \in dates : \A o \in dates : o <= d)

CodeUnits == {1, 9, 10, 32, 72, 173, 233, 8212, 8217, 8226, 64257}

MaxTextLen == 3

Texts == UNION {[1..n -> CodeUnits] : n \in 0..MaxTextLen}

\* String.prototype.normalize('NFKC') on one code unit: the ligatures
\* U+FB01 and U+FB02 decompose to their letters, the ellipsis U+2026 to
\* three full stops, the no-break space U+00A0 to a space; the other code
\* units of the texts above are their own normal form
NFKCOf(unit) ==
  CASE unit = 64257 -> <<102, 105>>
    [] unit = 64258 -> <<102, 108>>
    [] unit = 8230 -> <<46, 46, 46>>
    [] unit = 160 -> <<32>>
    [] OTHER -> <<unit>>

\* the chain of replace calls on one code unit: ligatures to letters,
\* typographic quotes to " and ', dashes and bullet to -, soft hyphen to
\* nothing, then every other code unit from U+0080 up to a space
SanitizeUnit(unit) ==
  CASE unit = 64257 -> <<102, 105>>
    [] unit = 64258 -> <<102, 108>>
    [] unit \in {8220, 8221} -> <<34>>
    [] unit \in {8216, 8217} -> <<39>>
    [] unit \in {8211, 8212} -> <<45>>
    [] unit = 8226 -> <<45>>
    [] unit = 173 -> << >>
    [] unit >= 128 -> <<32>>
    [] OTHER -> <<unit>>

\* the same chain with the replacement of the test's copy of the function,
\* t.replace(/[\x00-\x08\x0B\x0C\x0E-\x1F]/g, ' '), in it
SanitizeUnitAndControls(unit) ==
  IF unit < 32 /\ unit \notin {9, 10, 13} THEN <<32>> ELSE SanitizeUnit(unit)

\* String(text).normalize('NFKC')
RECURSIVE NFKC(_)
NFKC(t) == IF t = << >> THEN << >> ELSE NFKCOf(Head(t)) \o NFKC(Tail(t))

\* the replace calls up to and including /[\u0080-\uFFFF]/g
RECURSIVE ReplaceUnits(_)
ReplaceUnits(t) ==
  IF t = << >> THEN << >> ELSE SanitizeUnit(Head(t)) \o ReplaceUnits(Tail(t))

RECURSIVE ReplaceUnitsAndControls(_)
ReplaceUnitsAndControls(t) ==
  IF t = << >> THEN << >>
  ELSE SanitizeUnitAndControls(Head(t)) \o ReplaceUnitsAndControls(Tail(t))

\* the length of the run of tabs and spaces that starts at position i
RECURSIVE BlankRun(_, _)
BlankRun(t, i) ==
  IF i <= Len(t) /\ t[i] \in {9, 32} THEN 1 + BlankRun(t, i + 1) ELSE 0

\* t.replace(/[\t ]{2,}/g, ' ') from position i on
RECURSIVE CollapseBlanks(_, _)
CollapseBlanks(t, i) ==
  IF i > Len(t) THEN << >>
  ELSE IF BlankRun(t, i) >= 2 THEN <<32>> \o CollapseBlanks(t, i + BlankRun(t, i))
  ELSE <<t[i]>> \o CollapseBlanks(t, i + 1)

\* t.replace(/[ \t]+$/g, '')
RECURSIVE TrimTrailingBlanks(_)
TrimTrailingBlanks(t) ==
  IF t # << >> /\ t[Len(t)] \in {9, 32}
  THEN TrimTrailingBlanks(SubSeq(t, 1, Len(t) - 1))
  ELSE t

asciiSanitize(text) ==
  IF text = << >> THEN << >>
  ELSE TrimTrailingBlanks(CollapseBlanks(ReplaceUnits(NFKC(text)), 1))

InitAscii == ServerAtRest /\ ps = None /\ arg \in Texts /\ res = << >>

ApplyAsciiSanitize ==
  /\ res = << >>
  /\ res' = <<asciiSanitize(arg)>>
  /\ UNCHANGED <<site, mockDate, clock, due, cachedData, reply, ps, arg>>

NextAscii == ApplyAsciiSanitize

SpecAscii == InitAscii /\ [][NextAscii]_vars

\* C18: the output of asciiSanitize contains only ASCII characters, with
\* every control character other than tab, line feed and carriage return
\* replaced by a space, and with typographic quotes, dashes, bullets and
\* ligatures mapped to their ASCII counterparts
C18_AsciiWithoutControls ==
  res # << >> =>
    /\ \A i \in DOMAIN res[1] :
         res[1][i] < 128 /\ (res[1][i] >= 32 \/ res[1][i] \in {9, 10, 13})
    /\ res[1] = TrimTrailingBlanks(CollapseBlanks(ReplaceUnitsAndControls(NFKC(arg)), 1))

\* ------------------------------------------------------------------------
\* Properties of the scan of parsePDFBuffer
\* ------------------------------------------------------------------------

\* the positions before position i of the service lines of a scan
ServiceLinesBefore(st, i) ==
  {k \in 1..(i - 1) : DayHeaderMatch(st.lines[k]) = << >> /\ IsServiceLine(st.lines[k])}

\* the date of the most recent day header before position k, if any
DateBefore(st, k) ==
  With({h \in 1..(k - 1) : DayHeaderMatch(st.lines[h]) # << >>}, LAMBDA headers :
     IF headers = {} THEN None
     ELSE DayHeaderStep([st EXCEPT !.i = CHOOSE h \in headers : \A o \in headers : o <= h]).currentDate)

\* the records of a scan: the closed ones, then the open one
RecordsOf(st) == st.services \o st.currentService

\* C19: the scan yields exactly one record for each matched service line,
\* in the order of the lines; a record is closed when the next service line
\* is met and the last one at the end of the input; the date of each record
\* is the date of the most recent day header before its service line, and
\* later day headers do not affect it
C19_OneRecordPerServiceLine ==
  ps # None =>
    With(Val(ps), LAMBDA st :
    With(ServiceLinesBefore(st, st.i), LAMBDA found :
       /\ Len(RecordsOf(st)) = Cardinality(found)
       /\ st.done => st.currentService = None
       /\ (~st.done /\ found # {}) => st.currentService # None
       /\ \A k \in found :
            With(RecordsOf(st)[Cardinality(ServiceLinesBefore(st, k)) + 1], LAMBDA record :
            With(OpenService(st.lines[k], DateBefore(st, k)), LAMBDA opened :
               /\ record.date = opened.date
               /\ record.time = opened.time
               /\ record.service = opened.service
               /\ record.choir = opened.choir))))

\* a record is closed, the open one was opened under an earlier day header
\* than the one the scan has since passed
C19_Witness ==
  /\ ps # None /\ ~Val(ps).done
  /\ Len(Val(ps).services) >= 1
  /\ Val(ps).currentService # None
  /\ Val(Val(ps).currentService).date # None
  /\ Val(ps).currentDate # None
  /\ Val(ps).currentDate # Val(Val(ps).currentService).date

IsPrefix(s, t) == Len(s) <= Len(t) /\ SubSeq(t, 1, Len(s)) = s

\* C20: a piece line changes only the open record: the line is appended
\* verbatim to its rawLines, in order, and its classified mentions are
\* appended to its piece lists; a line met while no record is open is
\* discarded; a closed record never changes
C20_PieceLineChangesOpenRecordOnly ==
  [][(ps # None /\ ps' # ps) =>
       /\ IsPrefix(Val(ps).services, Val(ps').services)
       /\ AtLine("piece") =>
            /\ Val(ps') = [Val(ps) EXCEPT !.i = @ + 1,
                                          !.currentService = Val(ps').currentService]
            /\ Val(Val(ps').currentService) =
                 [Val(Val(ps).currentService) EXCEPT
                    !.rawLines = Val(Val(ps').currentService).rawLines,
                    !.allPieces = Val(Val(ps').currentService).allPieces,
                    !.pieces = Val(Val(ps').currentService).pieces]
            /\ Val(Val(ps').currentService).rawLines =
                 Append(Val(Val(ps).currentService).rawLines, Val(ps).lines[Val(ps).i])
            /\ IsPrefix(Val(Val(ps).currentService).allPieces,
                        Val(Val(ps').currentService).allPieces)
            /\ \A c \in DOMAIN EmptyPieces :
                 /\ IsPrefix(Val(Val(ps).currentService).pieces[c],
                             Val(Val(ps').currentService).pieces[c])
                 /\ \A j \in DOMAIN Val(Val(ps').currentService).pieces[c] :
                      \E a \in DOMAIN Val(Val(ps').currentService).allPieces :
                        Val(Val(ps').currentService).allPieces[a]
                          = Val(Val(ps').currentService).pieces[c][j]
       /\ (AtLine("skip") /\ Val(ps).currentService = None) =>
            Val(ps') = [Val(ps) EXCEPT !.i = @ + 1]]_vars

\* two piece lines have been appended to the open record, in order, and
\* the second has been classified
C20_Witness ==
  /\ ps # None /\ Val(ps).currentService # None
  /\ Val(Val(ps).currentService).rawLines = <<"Walmisley in D minor", "Crux fidelis MacDonald">>
  /\ Len(Val(Val(ps).currentService).allPieces) = 2
  /\ Val(Val(ps).currentService).pieces.anthems # << >>

\* ------------------------------------------------------------------------
\* Properties of the pieces of a record
\* ------------------------------------------------------------------------

\* the service line up to the end of its choir
UptoChoir(line) ==
  With(Trim(From(line, TimeTokenLen(line) + 1)), LAMBDA fullServiceLine :
     Upto(line, TimeTokenLen(line)) \o " " \o Upto(fullServiceLine, ChoirMatch(fullServiceLine)[2]))

\* the text after the choir of a service line would be a piece line
CarriesPiece(line) ==
  /\ DayHeaderMatch(line) = << >> /\ IsServiceLine(line)
  /\ TextAfterChoir(line) # ""
  /\ ~StartsWithWeekday(TextAfterChoir(line))
  /\ ~IsServiceLine(TextAfterChoir(line))

\* the lines with the text after every choir moved to a line of its own
RECURSIVE MovedDown(_, _)
MovedDown(lines, k) ==
  IF k > Len(lines) THEN << >>
  ELSE (IF CarriesPiece(lines[k])
        THEN <<UptoChoir(lines[k]), TextAfterChoir(lines[k])>>
        ELSE <<lines[k]>>) \o MovedDown(lines, k + 1)

\* the scan of the same document with the lines of MovedDown
ScanMovedDown(st) ==
  ParseRun([st EXCEPT !.lines = MovedDown(st.lines, 1), !.i = 1, !.currentDate = None,
                      !.currentService = None, !.services = << >>, !.done = FALSE])

\* C21: the text after the choir of a service line is processed as a piece
\* line with that text would be: it goes through splitMultiplePieces, and
\* every mention is classified and normalized, so that the pieces of the
\* record are those it would have had the text stood on the following line
C21_FirstPieceAsPieceLine ==
  (ps # None /\ Val(ps).done) =>
    /\ Len(Val(ps).services) = Len(ScanMovedDown(Val(ps)).services)
    /\ \A k \in DOMAIN Val(ps).services :
         /\ Val(ps).services[k].pieces = ScanMovedDown(Val(ps)).services[k].pieces
         /\ Val(ps).services[k].allPieces = ScanMovedDown(Val(ps)).services[k].allPieces

\* ------------------------------------------------------------------------
\* classifyPiece on its own
\* ------------------------------------------------------------------------

\* the fragments the mentions are put together from, at most MaxMentionParts each
MentionParts ==
  {"Prelude", "Toccata", "Organ", "on a Hymn tune", "Psalm 23", "Byrd", "Mass"}
MaxMentionParts == 3

Mentions ==
  {Join(parts, " ") : parts \in UNION {[1..n -> MentionParts] : n \in 1..MaxMentionParts}}

InitClassify == ServerAtRest /\ ps = None /\ arg \in Mentions /\ res = << >>

ApplyClassifyPiece ==
  /\ res = << >>
  /\ res' = <<classifyPiece(arg)>>
  /\ UNCHANGED <<site, mockDate, clock, due, cachedData, reply, ps, arg>>

NextClassify == ApplyClassifyPiece

SpecClassify == InitClassify /\ [][NextClassify]_vars

\* the keywords of isOrganPiece
organKeywords ==
  {"voluntary", "voluntaries", "organ", "prelude", "postlude", "toccata",
   "fugue", "chorale", "chaconne", "passacaglia", "intrada", "march",
   "processional", "sortie", "offertoire", "trumpet tune", "rondo",
   "scherzo", "canzona", "ricercar"}

choralKeywords ==
  {"responses", "canticles", "magnificat", "nunc dimittis", "te deum",
   "jubilate", "mass", "psalm", "hymn"}

\* text.replace(/\s+/g, '')
RECURSIVE NoSpace(_)
NoSpace(s) ==
  IF s = "" THEN ""
  ELSE (IF Ch(s, 1) \in SpaceChars THEN "" ELSE Ch(s, 1)) \o NoSpace(From(s, 2))

\* keywords.some(k => lowerText.includes(k) || lowerNoSpace.includes(k without spaces))
HasKeyword(text, keywords) ==
  \E k \in keywords :
    Includes(ToLower(text), k) \/ Includes(NoSpace(ToLower(text)), NoSpace(k))

\* C22: classifyPiece returns "organ" for a mention only if the mention
\* contains an organ keyword and none of the choral keywords (responses,
\* canticles, magnificat, nunc dimittis, te deum, jubilate, mass, psalm,
\* hymn); a mention with an organ keyword and, say, "hymn" or "psalm" is
\* classified by the later rules, never as organ
C22_OrganOnlyWithoutChoralKeyword ==
  (res # << >> /\ res[1] = "organ") =>
    HasKeyword(arg, organKeywords) /\ ~HasKeyword(arg, choralKeywords)

\* ------------------------------------------------------------------------
\* Properties of the scan of a document with defects
\* ------------------------------------------------------------------------

\* the positions of the day headers before position k
HeadersBefore(st, k) == {h \in 1..(k - 1) : DayHeaderMatch(st.lines[h]) # << >>}

\* the date a day header names, by parseDate
HeaderDate(st, h) ==
  With(DayHeaderMatch(st.lines[h]), LAMBDA m :
     parseDate(m[1] \o " " \o m[2],
               IF st.endDate # None THEN FullYear(Val(st.endDate)) ELSE st.yearNow))

\* the time the token of a service line names, by parseTime
TokenTime(line) == parseTime(Upto(line, TimeTokenLen(line)))

\* the line is a day header with no month, or a service line with no time
IsDefect(st, j) ==
  \/ DayHeaderMatch(st.lines[j]) # << >> /\ HeaderDate(st, j) = None
  \/ /\ DayHeaderMatch(st.lines[j]) = << >> /\ IsServiceLine(st.lines[j])
     /\ TokenTime(st.lines[j]) = NULL

\* C23: a day header whose month is not recognized, or a service line
\* whose time token cannot be parsed, never ends the scan of the document:
\* every service line after it still has its record, with the date of its
\* day header when that header is well formed and with its time when its
\* token is well formed
C23_DefectsRecoveredAtLine ==
  ps # None =>
    With(Val(ps), LAMBDA st :
       /\ st.done => st.i = Len(st.lines) + 1
       /\ \A k \in ServiceLinesBefore(st, IF st.done THEN Len(st.lines) + 1 ELSE st.i) :
            (\E j \in 1..(k - 1) : IsDefect(st, j)) =>
              /\ Cardinality(ServiceLinesBefore(st, k)) + 1 <= Len(RecordsOf(st))
              /\ With(RecordsOf(st)[Cardinality(ServiceLinesBefore(st, k)) + 1], LAMBDA record :
                 With(HeadersBefore(st, k), LAMBDA headers :
                    /\ (headers # {}
                          /\ HeaderDate(st, CHOOSE h \in headers : \A o \in headers : o <= h) # None)
                         => record.date =
                              HeaderDate(st, CHOOSE h \in headers : \A o \in headers : o <= h)
                    /\ TokenTime(st.lines[k]) # NULL => record.time = TokenTime(st.lines[k]))))

\* the scan is over; after a header with no month and a token with no time
\* the last service line has its record of Monday 1 September, 17:30
C23_Witness ==
  /\ ps # None /\ Val(ps).done
  /\ arg = DefectiveLines
  /\ Len(Val(ps).services) = 3
  /\ Val(ps).services[1].date = None
  /\ Val(ps).services[2].time = NULL
  /\ Val(ps).services[3].date = Some(NoonUTC(2025, 8, 1))
  /\ Val(ps).services[3].time = "17:30"

\* a day header lies between the service line of the open record and the
\* line the scan is at
HeaderSinceOpened(st) ==
  /\ st.currentService # None
  /\ \E h \in HeadersBefore(st, st.i) : \A k \in ServiceLinesBefore(st, st.i) : k < h

\* C24: a day header is a boundary for the attribution of pieces: no line
\* after a day header is appended to the rawLines or to the pieces of a
\* record opened before that header
C24_DayHeaderClosesAttribution ==
  [][(ps # None /\ ps' # ps /\ HeaderSinceOpened(Val(ps))) =>
       With(RecordsOf(Val(ps))[Len(RecordsOf(Val(ps)))], LAMBDA before :
       With(RecordsOf(Val(ps'))[Len(RecordsOf(Val(ps)))], LAMBDA after :
          /\ after.rawLines = before.rawLines
          /\ after.allPieces = before.allPieces
          /\ after.pieces = before.pieces))]_vars

\* ------------------------------------------------------------------------
\* Properties of the last day of a list
\* ------------------------------------------------------------------------

\* C25: the schedule is not stale at any instant of the calendar day of its
\* validity end date: the services of the last day the list covers can be
\* selected until that day is over
C25_NotStaleOnEndDay ==
  (/\ due # None /\ cachedData.error = None /\ cachedData.endDate # None
   /\ cachedData.lastFetch # None
   /\ DateStr(Val(cachedData.lastFetch)) = DateStr(Val(cachedData.endDate)))
    => ~Truthy(cachedData.isStale)

\* ------------------------------------------------------------------------
\* Properties of /json
\* ------------------------------------------------------------------------

\* the text ends with the given text
EndsWith(s, p) == Len(s) >= Len(p) /\ MatchAt(s, Len(s) - Len(p) + 1, p)

\* C26: in every response of /json the field stale of the body equals the
\* value of the header X-Stale of the same response: the body says
\* stale=true only when the stale flag of the snapshot is true
C26_BodyStaleIsHeaderStale ==
  (reply # None /\ Val(reply).route = "json") =>
    (EndsWith(Val(reply).body, "\"stale\":true}") <=> Val(reply).xStale = "true")

\* ------------------------------------------------------------------------
\* Properties of the dates and times of the records of a document
\* ------------------------------------------------------------------------

\* C27: every record parsed from a document that has a validity end date
\* has a date not later than that end date, also for a list whose range
\* crosses the turn of the year (day headers of December under a range
\* that ends in January of the year stated)
C27_RecordsWithinValidity ==
  (ps # None /\ Val(ps).endDate # None) =>
    \A k \in DOMAIN RecordsOf(Val(ps)) :
      RecordsOf(Val(ps))[k].date # None =>
        Val(RecordsOf(Val(ps))[k].date) <= Val(Val(ps).endDate)

\* C28: for every time token the pattern of a service line accepts,
\* parseTime returns null or a string "HH:MM" with 0 <= HH <= 23 and
\* 0 <= MM <= 59, so that the instant computed from the date and the time
\* of a record falls on the calendar date of the record
C28_ClockTimeInRange ==
  (res # << >> /\ TimeTokenLen(arg \o " Evensong") = Len(arg)) =>
    \/ res[1] = NULL
    \/ /\ Len(res[1]) = 5 /\ Ch(res[1], 3) = ":"
       /\ AllIn(res[1], 1, 2, DigitChars) /\ AllIn(res[1], 4, 5, DigitChars)
       /\ ParseInt(SubSeq(res[1], 1, 2)) <= 23
       /\ ParseInt(SubSeq(res[1], 4, 5)) <= 59

\* ------------------------------------------------------------------------
\* Properties of the copy dedupeServices keeps
\* ------------------------------------------------------------------------

\* the records of the documents from k on, one after another
RECURSIVE RecordsFrom(_, _)
RecordsFrom(docs, k) ==
  IF k > Len(docs) THEN << >> ELSE docs[k] \o RecordsFrom(docs, k + 1)

\* the positions of the records that have a key and are the first of it
FirstOfKey(all) ==
  {p \in DOMAIN all :
     /\ all[p].date # None /\ all[p].time # NULL
     /\ \A q \in 1..(p - 1) :
          (all[q].date # None /\ all[q].time # NULL) => DedupeKey(all[q]) # DedupeKey(all[p])}

\* the records of a document have one of the key of the record
HasKeyOf(doc, record) ==
  \E j \in DOMAIN doc :
    doc[j].date # None /\ doc[j].time # NULL /\ DedupeKey(doc[j]) = DedupeKey(record)

\* C29: dedupeServices keeps the first record of every key in the order of
\* the concatenation and keeps the survivors in their order; the documents
\* being merged latest claimed end date first, of two documents with a
\* record of the same key the merged schedule holds the copy, pieces and
\* rawLines, of the document with the later end date
C29_CopyOfLatestDocument ==
  [][RefreshSucceeded =>
       With(EntriesToParse, LAMBDA entries :
       With([k \in DOMAIN entries |-> parsePDF(entries[k].url, FullYear(clock)).services],
         LAMBDA docs :
       With(RecordsFrom(docs, 1), LAMBDA all :
       With(FirstOfKey(all), LAMBDA first :
       With(dedupeServices(all), LAMBDA kept :
          /\ Len(kept) = Cardinality(first)
          /\ \A p \in first : kept[Cardinality({q \in first : q <= p})] = all[p]
          /\ \A i \in DOMAIN cachedData'.services :
               \E k \in DOMAIN entries :
                 /\ \E j \in DOMAIN docs[k] : docs[k][j] = cachedData'.services[i]
                 /\ \A o \in DOMAIN entries :
                      HasKeyOf(docs[o], cachedData'.services[i])
                        => entries[o].endDate <= entries[k].endDate)))))]_vars

\* the lists to 1 September and to 31 August are merged, and the Choral
\* Evensong of 31 August both have is held with the pieces of the first
C29_Witness ==
  /\ cachedData.error = None
  /\ cachedData.pdfUrls = <<"https://leicestercathedral.org/a.pdf",
                            "https://leicestercathedral.org/b.pdf">>
  /\ \E i \in DOMAIN cachedData.services :
       /\ cachedData.services[i].service = "Choral Evensong"
       /\ cachedData.services[i].choir = "Songmen"
       /\ cachedData.services[i].rawLines = <<"Stanford in C">>
  /\ \A i \in DOMAIN cachedData.services :
       cachedData.services[i].rawLines # <<"Wood in E">>

\* ------------------------------------------------------------------------
\* Properties of the error of the snapshot
\* ------------------------------------------------------------------------

\* the refresh of this state fails: no link, or a document that cannot be fetched
RefreshFails ==
  With(EntriesToParse, LAMBDA entries :
     entries = << >> \/ \E k \in DOMAIN entries : DocumentAt(entries[k].url) = 0)

\* C30: after any sequence of refreshes the error of the snapshot is set if
\* and only if the most recent refresh failed: a refresh that succeeds
\* clears the error earlier failures left and sets lastFetch, a refresh that
\* fails sets the error and leaves lastFetch as it was
C30_ErrorOfLastRefresh ==
  [][/\ due' = due => cachedData' = cachedData
     /\ due' # due =>
          With(RefreshFails, LAMBDA fails :
             /\ cachedData'.error # None <=> fails
             /\ ~fails => cachedData'.lastFetch = Some(Now)
             /\ fails => cachedData'.lastFetch = cachedData.lastFetch)]_vars

\* the refresh of noon has just failed after the refresh of midnight had
\* succeeded: the error is set, lastFetch is still midnight
C30_Witness ==
  /\ mockDate = None /\ clock = FirstInstant + 720 /\ due = Some(clock + 720)
  /\ cachedData.error # None
  /\ cachedData.lastFetch = Some(FirstInstant)

====
